---- MODULE Spec2Model ----
(***************************************************************************)
(* Hybrid data layer of the engineering-impact dashboard:                  *)
(*   src/frontend/src/lib/github.ts            (aggregation, merge, cache) *)
(*   src/frontend/src/app/api/cron/backfill/route.ts   (backfill route)    *)
(*   src/frontend/scripts/fetch-bigquery.js    (the static snapshot)       *)
(*   src/frontend/src/lib/analyzer.ts          (scoring, insights, trends) *)
(*   src/frontend/src/app/api/trends/route.ts  (trends route)              *)
(*                                                                         *)
(* Units.  PR timestamps (createdAt, mergedAt) are integers counted in     *)
(* ticks of 1/200 hour, so that "hours rounded to two decimals" is a real  *)
(* rounding; every *_hours field is an integer number of hundredths of an  *)
(* hour.  The wall clock (Date.now()) is in milliseconds.                  *)
(*                                                                         *)
(* Specifications.  MergeSpec applies mergeData to a snapshot of any part  *)
(* of the upstream history and the aggregate of any part of it.  Spec runs *)
(* the request handlers: two concurrent getGitHubData calls, the backfill  *)
(* route (one invocation at a time, as a cron job triggers it), and the    *)
(* clock.  A handler step runs from one await on the network or the module *)
(* loader to the next; every upstream request may fail.  AggSpec applies   *)
(* aggregateRawPRs to batches of well-formed and malformed records.        *)
(* AnalyzeSpec applies the scoring engine of src/frontend/src/lib/         *)
(* analyzer.ts (analyzeEngineers, analyzeTopEngineers, generateInsights)   *)
(* to drawn contributor maps, ScoreSpec applies scoreContributor to drawn  *)
(* contributors and population statistics.  TrendSpec serves GET           *)
(* /api/trends (src/frontend/src/app/api/trends/route.ts, generateTrends)  *)
(* on drawn PR lists, with merge times in seconds since the epoch.  A      *)
(* specification pins the variables of the others.                         *)
(***************************************************************************)
EXTENDS Integers, Sequences, FiniteSets, TLC

\* ------------------------------------------------------------------ bounds
\* Number of pull requests in the upstream repository's history.
HistLen == 4
\* Records per upstream page (the GraphQL queries ask for first: 100).
PageSize == 2
\* Largest "pages" query parameter the backfill route is invoked with.
MaxPagesParam == 3
\* Number of clock advances explored.
MaxTicks == 1

\* --------------------------------------------------------- helper algebra
\* Math.round(n / d) for d > 0: round half up (towards +infinity).
RoundDiv(n, d) == (2 * n + d) \div (2 * d)

Put(map, k, v) == [x \in (DOMAIN map) \cup {k} |-> IF x = k THEN v ELSE map[x]]

EmptyMap == [x \in {} |-> 0]

RECURSIVE SumSeq(_)
SumSeq(s) == IF s = <<>> THEN 0 ELSE Head(s) + SumSeq(Tail(s))

SeqToSet(s) == {s[i] : i \in DOMAIN s}

RECURSIVE Unique(_)
\* [...new Set(xs)]: first occurrences, in order.
Unique(s) ==
  IF s = <<>> THEN <<>>
  ELSE LET init == Unique(SubSeq(s, 1, Len(s) - 1))
           last == s[Len(s)]
       IN IF last \in SeqToSet(init) THEN init ELSE Append(init, last)

\* ------------------------------------------------------------ identities
Humans == {"alice", "bob"}
BotLogins == {"dep[bot]"}
Logins == Humans \cup BotLogins

\* login.endsWith('[bot]') over the logins of the model.
EndsWithBot(login) == login \in BotLogins

NullAuthor == [login |-> "<null>", avatarUrl |-> "<null>"]
ApiAuthor(login) == [login |-> login, avatarUrl |-> <<"api", login>>]

\* An unparseable timestamp string: new Date(s).getTime() is NaN.
InvalidDate == 0 - 1
IsNaNDate(t) == t = InvalidDate

\* Ticks per hundredth of an hour.
TicksPerCentiHour == 2

\* ticks -> hours * 100, as Math.round(hours * 100).
RoundHours(ticks) == RoundDiv(ticks, TicksPerCentiHour)

\* ------------------------------------------------------ upstream history
\* The upstream repository: pull request number i of 1..HistLen, oldest
\* first.  Authors alternate; every PR is reviewed by the other human (PR
\* numbers divisible by 3 twice by the same reviewer), even-numbered PRs
\* also carry a bot review, and PR 1 a review whose author was deleted.
AuthorOf(i) == IF i % 2 = 1 THEN "alice" ELSE "bob"
ReviewerOf(i) == IF i % 2 = 1 THEN "bob" ELSE "alice"

ReviewsOf(i) ==
  <<ApiAuthor(ReviewerOf(i))>>
  \o (IF i % 3 = 0 THEN <<ApiAuthor(ReviewerOf(i))>> ELSE <<>>)
  \o (IF i % 2 = 0 THEN <<ApiAuthor("dep[bot]")>> ELSE <<>>)
  \o (IF i = 1 THEN <<NullAuthor>> ELSE <<>>)

\* title is 0 when the title holds no "#<digits>", else the number of its
\* first "#<digits>" (what title.match(/#(\d+)/) captures).
RawPRAt(i) ==
  [ number       |-> i,
    title        |-> 0,
    createdAt    |-> 1000 * i,
    mergedAt     |-> 1000 * i + 5 * i + 4,
    additions    |-> 10 * i,
    deletions    |-> i,
    changedFiles |-> i + 1,
    author       |-> ApiAuthor(AuthorOf(i)),
    reviews      |-> ReviewsOf(i) ]

\* ----------------------------------------------------------- aggregation
NewAcc(login, avatar) ==
  [ name |-> login, avatar_url |-> avatar, prs_created |-> 0,
    total_files_changed |-> 0, total_additions |-> 0, total_deletions |-> 0,
    merge_hours |-> <<>>, reviews_given |-> 0, prs_reviewed |-> {} ]

\* if (!cMap[k]) cMap[k] = {...}: keys keep their insertion order.
Ensure(st, login, avatar) ==
  IF login \in DOMAIN st.cMap THEN st
  ELSE [st EXCEPT !.cMap = Put(st.cMap, login, NewAcc(login, avatar)),
                  !.order = Append(st.order, login)]

RECURSIVE ReviewLoop(_, _, _)
\* for (const review of pr.reviews.nodes) { ... }   st.reviewers collects.
ReviewLoop(st, nodes, prNumber) ==
  IF nodes = <<>> THEN st
  ELSE LET ra == Head(nodes) IN
       IF ra = NullAuthor \/ EndsWithBot(ra.login)
       THEN ReviewLoop(st, Tail(nodes), prNumber)
       ELSE LET s1 == Ensure(st, ra.login, ra.avatarUrl)
                c  == s1.cMap[ra.login]
                s2 == [s1 EXCEPT
                         !.cMap = Put(s1.cMap, ra.login,
                                      [c EXCEPT !.reviews_given = @ + 1,
                                                !.prs_reviewed = @ \cup {prNumber}]),
                         !.reviewers = Append(@, ra.login)]
            IN ReviewLoop(s2, Tail(nodes), prNumber)

\* AggregateOne with the contributor's accumulator created before the
\* timestamps are checked.
AggregateOneLateCheck(st, pr) ==
  IF pr.author = NullAuthor \/ EndsWithBot(pr.author.login) THEN st
  ELSE IF IsNaNDate(pr.createdAt) \/ IsNaNDate(pr.mergedAt)
       THEN Ensure(st, pr.author.login, pr.author.avatarUrl)
  ELSE
    LET username   == pr.author.login
        mergeTicks == pr.mergedAt - pr.createdAt
        s1 == Ensure(st, username, pr.author.avatarUrl)
        c  == s1.cMap[username]
        s2 == [s1 EXCEPT
                 !.cMap = Put(s1.cMap, username,
                   [c EXCEPT !.prs_created = @ + 1,
                             !.total_files_changed = @ + pr.changedFiles,
                             !.total_additions = @ + pr.additions,
                             !.total_deletions = @ + pr.deletions,
                             !.merge_hours = Append(@, mergeTicks)]),
                 !.reviewers = <<>>]
        s3 == ReviewLoop(s2, pr.reviews, pr.number)
    IN [s3 EXCEPT !.prs = Append(@,
          [ author_username     |-> username,
            title               |-> pr.title,
            files_changed       |-> pr.changedFiles,
            additions           |-> pr.additions,
            deletions           |-> pr.deletions,
            time_to_merge_hours |-> RoundHours(mergeTicks),
            created_at          |-> pr.createdAt,
            merged_at           |-> pr.mergedAt,
            reviews_count       |-> Len(pr.reviews),
            reviewers           |-> Unique(s3.reviewers) ])]

\* One iteration of the loop over rawPRs.
AggregateOne(st, pr) ==
  IF pr.author = NullAuthor \/ EndsWithBot(pr.author.login) THEN st
  ELSE IF IsNaNDate(pr.createdAt) \/ IsNaNDate(pr.mergedAt) THEN st
  ELSE
    LET username   == pr.author.login
        mergeTicks == pr.mergedAt - pr.createdAt
        s1 == Ensure(st, username, pr.author.avatarUrl)
        c  == s1.cMap[username]
        s2 == [s1 EXCEPT
                 !.cMap = Put(s1.cMap, username,
                   [c EXCEPT !.prs_created = @ + 1,
                             !.total_files_changed = @ + pr.changedFiles,
                             !.total_additions = @ + pr.additions,
                             !.total_deletions = @ + pr.deletions,
                             !.merge_hours = Append(@, mergeTicks)]),
                 !.reviewers = <<>>]
        s3 == ReviewLoop(s2, pr.reviews, pr.number)
    IN [s3 EXCEPT !.prs = Append(@,
          [ author_username     |-> username,
            title               |-> pr.title,
            files_changed       |-> pr.changedFiles,
            additions           |-> pr.additions,
            deletions           |-> pr.deletions,
            time_to_merge_hours |-> RoundHours(mergeTicks),
            created_at          |-> pr.createdAt,
            merged_at           |-> pr.mergedAt,
            reviews_count       |-> Len(pr.reviews),
            reviewers           |-> Unique(s3.reviewers) ])]

RECURSIVE AggregateLoop(_, _)
AggregateLoop(st, rawPRs) ==
  IF rawPRs = <<>> THEN st
  ELSE AggregateLoop(AggregateOne(st, Head(rawPRs)), Tail(rawPRs))

\* The final conversion of one accumulator into ContributorData.
Finalize(data) ==
  [ name |-> data.name, avatar_url |-> data.avatar_url,
    prs_created |-> data.prs_created,
    total_files_changed |-> data.total_files_changed,
    total_additions |-> data.total_additions,
    total_deletions |-> data.total_deletions,
    avg_time_to_merge_hours |->
      IF Len(data.merge_hours) > 0
      THEN RoundDiv(SumSeq(data.merge_hours),
                    TicksPerCentiHour * Len(data.merge_hours))
      ELSE 0,
    reviews_given |-> data.reviews_given,
    prs_reviewed |-> Cardinality(data.prs_reviewed) ]

\* aggregateRawPRs(rawPRs): { contributors, prs }; order is the insertion
\* order of the contributors object's keys.
aggregateRawPRs(rawPRs) ==
  LET st == AggregateLoop([cMap |-> EmptyMap, order |-> <<>>, prs |-> <<>>,
                           reviewers |-> <<>>], rawPRs)
  IN [ contributors |-> [u \in DOMAIN st.cMap |-> Finalize(st.cMap[u])],
       order |-> st.order,
       prs |-> st.prs ]

\* ------------------------------------------------------------------ sort
RECURSIVE InsertDesc(_, _)
\* Insert pr after every element whose merged_at is >= its own (stable).
InsertDesc(sorted, pr) ==
  IF sorted = <<>> THEN <<pr>>
  ELSE IF Head(sorted).merged_at >= pr.merged_at
       THEN <<Head(sorted)>> \o InsertDesc(Tail(sorted), pr)
       ELSE <<pr>> \o sorted

RECURSIVE SortFrom(_, _)
SortFrom(sorted, rest) ==
  IF rest = <<>> THEN sorted
  ELSE SortFrom(InsertDesc(sorted, Head(rest)), Tail(rest))

\* prs.sort((a, b) => new Date(b.merged_at) - new Date(a.merged_at)):
\* a stable sort, newest merge first.
SortByMergedAtDesc(prs) == SortFrom(<<>>, prs)

\* ------------------------------------------------------- static snapshot
CdnAvatar(login) == <<"cdn", login>>

RECURSIVE SnapshotReviews(_, _, _)
\* for (const reviewer of uniqueReviewers) { ... }
SnapshotReviews(st, uniqueReviewers, prNumber) ==
  IF uniqueReviewers = <<>> THEN st
  ELSE LET r == Head(uniqueReviewers) IN
       IF EndsWithBot(r) THEN SnapshotReviews(st, Tail(uniqueReviewers), prNumber)
       ELSE LET s1 == Ensure(st, r, CdnAvatar(r))
                c  == s1.cMap[r]
            IN SnapshotReviews(
                 [s1 EXCEPT !.cMap = Put(s1.cMap, r,
                    [c EXCEPT !.reviews_given = @ + 1,
                              !.prs_reviewed = @ \cup {prNumber}])],
                 Tail(uniqueReviewers), prNumber)

RECURSIVE ReviewerLogins(_)
\* The review-event rows of one PR (actor.login of each event).
ReviewerLogins(nodes) ==
  IF nodes = <<>> THEN <<>>
  ELSE IF Head(nodes) = NullAuthor THEN ReviewerLogins(Tail(nodes))
       ELSE <<Head(nodes).login>> \o ReviewerLogins(Tail(nodes))

SnapshotOne(st, pr) ==
  IF pr.author = NullAuthor \/ EndsWithBot(pr.author.login) THEN st
  ELSE IF IsNaNDate(pr.createdAt) \/ IsNaNDate(pr.mergedAt) THEN st
  ELSE
    LET author     == pr.author.login
        mergeTicks == pr.mergedAt - pr.createdAt
        s1 == Ensure(st, author, pr.author.avatarUrl)
        c  == s1.cMap[author]
        s2 == [s1 EXCEPT !.cMap = Put(s1.cMap, author,
                 [c EXCEPT !.prs_created = @ + 1,
                           !.total_files_changed = @ + pr.changedFiles,
                           !.total_additions = @ + pr.additions,
                           !.total_deletions = @ + pr.deletions,
                           !.merge_hours = Append(@, mergeTicks)])]
        uniqueReviewers == Unique(ReviewerLogins(pr.reviews))
        s3 == SnapshotReviews(s2, uniqueReviewers, pr.number)
    IN [s3 EXCEPT !.prs = Append(@,
          [ author_username     |-> author,
            title               |-> pr.number,
            files_changed       |-> pr.changedFiles,
            additions           |-> pr.additions,
            deletions           |-> pr.deletions,
            time_to_merge_hours |-> RoundHours(mergeTicks),
            created_at          |-> pr.createdAt,
            merged_at           |-> pr.mergedAt,
            reviews_count       |-> Len(uniqueReviewers),
            reviewers           |-> uniqueReviewers ])]

RECURSIVE SnapshotLoop(_, _)
SnapshotLoop(st, rows) ==
  IF rows = <<>> THEN st
  ELSE SnapshotLoop(SnapshotOne(st, Head(rows)), Tail(rows))

\* github_data.json as scripts/fetch-bigquery.js writes it from the rows of
\* the given pull requests: titles are "PR #<number>", PRs newest first.
SnapshotOf(rows) ==
  LET st == SnapshotLoop([cMap |-> EmptyMap, order |-> <<>>, prs |-> <<>>,
                          reviewers |-> <<>>], rows)
  IN [ repo |-> "PostHog/posthog",
       contributors |-> [u \in DOMAIN st.cMap |-> Finalize(st.cMap[u])],
       order |-> st.order,
       prs |-> SortByMergedAtDesc(st.prs) ]

\* ------------------------------------------------------------- mergeData
\* `${pr.author_username}:${pr.merged_at}`
DedupKey(pr) == <<pr.author_username, pr.merged_at>>

ExistingPrs(base) == {DedupKey(base.prs[i]) : i \in DOMAIN base.prs}

\* Mutation of NewPrs: the overlay is not filtered.
NewPrsUnfiltered(base, overlay) == overlay.prs

NewPrs(base, overlay) ==
  LET IsNew(pr) == DedupKey(pr) \notin ExistingPrs(base)
  IN SelectSeq(overlay.prs, IsNew)

\* overlayContrib.name || base.name: the empty string is falsy.
NameOr(a, b) == IF a = "" THEN b ELSE a
\* overlayContrib.avatar_url || base.avatar_url
AvatarOr(a, b) == IF a = <<>> THEN b ELSE a

\* Mutation of MergedAvg: the plain mean of the two averages.
MergedAvgPlainMean(b, o) ==
  IF b.prs_created + o.prs_created > 0
  THEN RoundDiv(b.avg_time_to_merge_hours + o.avg_time_to_merge_hours, 2)
  ELSE 0

\* Math.round((totalMergeHours / totalPrs) * 100) / 100, or 0.
MergedAvg(b, o) ==
  LET totalMergeHours == b.avg_time_to_merge_hours * b.prs_created
                         + o.avg_time_to_merge_hours * o.prs_created
      totalPrs == b.prs_created + o.prs_created
  IN IF totalPrs > 0 THEN RoundDiv(totalMergeHours, totalPrs) ELSE 0

\* MergeContributor keeping the overlay's reviews_given instead of the sum.
MergeContributorOverlayReviews(b, o) ==
  [ name |-> NameOr(o.name, b.name),
    avatar_url |-> AvatarOr(o.avatar_url, b.avatar_url),
    prs_created |-> b.prs_created + o.prs_created,
    total_files_changed |-> b.total_files_changed + o.total_files_changed,
    total_additions |-> b.total_additions + o.total_additions,
    total_deletions |-> b.total_deletions + o.total_deletions,
    avg_time_to_merge_hours |-> MergedAvg(b, o),
    reviews_given |-> o.reviews_given,
    prs_reviewed |-> b.prs_reviewed + o.prs_reviewed ]

\* The else branch of the contributor loop.
MergeContributor(b, o) ==
  [ name |-> NameOr(o.name, b.name),
    avatar_url |-> AvatarOr(o.avatar_url, b.avatar_url),
    prs_created |-> b.prs_created + o.prs_created,
    total_files_changed |-> b.total_files_changed + o.total_files_changed,
    total_additions |-> b.total_additions + o.total_additions,
    total_deletions |-> b.total_deletions + o.total_deletions,
    avg_time_to_merge_hours |-> MergedAvg(b, o),
    reviews_given |-> b.reviews_given + o.reviews_given,
    prs_reviewed |-> b.prs_reviewed + o.prs_reviewed ]

RECURSIVE MergeContributors(_, _, _)
\* for (const [username, overlayContrib] of Object.entries(overlay.contributors))
\* acc is [contributors, order]; keys is the overlay's key order still to visit.
MergeContributors(acc, overlay, keys) ==
  IF keys = <<>> THEN acc
  ELSE LET username == Head(keys)
           oc == overlay.contributors[username]
       IN MergeContributors(
            IF username \notin DOMAIN acc.contributors
            THEN [contributors |-> Put(acc.contributors, username, oc),
                  order |-> Append(acc.order, username)]
            ELSE [acc EXCEPT !.contributors =
                    Put(acc.contributors, username,
                        MergeContributor(acc.contributors[username], oc))],
            overlay, Tail(keys))

\* [...newPrs, ...base.prs].sort(...)
AllPrs(base, overlay) == SortByMergedAtDesc(NewPrs(base, overlay) \o base.prs)

\* fetched_at, the time of the merge, is left out: nothing reads it.
mergeData(base, overlay) ==
  LET merged == MergeContributors(
                  [contributors |-> base.contributors, order |-> base.order],
                  overlay, overlay.order)
  IN [ repo |-> base.repo,
       contributors |-> merged.contributors,
       order |-> merged.order,
       prs |-> AllPrs(base, overlay) ]

\* ------------------------------------------------------------- variables
VARIABLES
  mBase,      \* mergeData's first argument
  mOverlay,   \* mergeData's second argument
  mResult,    \* what mergeData returned, Null before the call
  mStage,     \* "input" before the call, "merged" after it
  now,              \* Date.now(), in ms
  hasToken,         \* process.env.GITHUB_TOKEN is set
  pagesParam,       \* the "pages" query parameter the cron job is configured with
  cachedData,       \* github.ts: cachedData
  cacheTimestamp,   \* github.ts: cacheTimestamp
  backfillData,     \* github.ts: backfillData
  backfillComplete, \* route.ts: backfillComplete
  calls,            \* the getGitHubData calls, one record per caller
  route,            \* the backfill route's invocation in progress
  hist,             \* history of the run, read by the properties only
  gRawPRs,    \* aggregateRawPRs' argument
  gResult,    \* what aggregateRawPRs returned, Null before the call
  gStage,     \* "input" before the call, "aggregated" after it
  aData,      \* the dataset handed to the analyzer: contributors, order
  aPop,       \* computePopulationStats(contributors), Null before the call
  aTerms,     \* per scored contributor, the normalized terms of its scores
  aEngineers, \* analyzeEngineers(contributors, prs), Null before the call
  aTop,       \* analyzeTopEngineers(contributors, prs, aLimit)
  aLimit,     \* the limit of the last analyzeTopEngineers call
  aInsights,  \* generateInsights(engineers, contributors)
  aStage,     \* "input", "analyzed", "top" or "insights"
  sC,         \* scoreContributor's ContributorData argument
  sPop,       \* scoreContributor's PopulationStats argument
  sScore,     \* what scoreContributor returned, Null before the call
  sStage,     \* "input" before the call, "scored" after it
  tData,      \* the dataset GET /api/trends gets: contributors, order, prs
  tQuery,     \* the query of the request served: top, from, to
  tTrends,    \* the response: engineers and series, Null before the request
  tStage      \* "input" before the request, "served" after it

mergeVars == <<mBase, mOverlay, mResult, mStage>>
sysVars == <<now, hasToken, pagesParam, cachedData, cacheTimestamp, backfillData,
             backfillComplete, calls, route, hist>>
aggVars == <<gRawPRs, gResult, gStage>>
anVars == <<aData, aPop, aTerms, aEngineers, aTop, aLimit, aInsights, aStage>>
scoreVars == <<sC, sPop, sScore, sStage>>
\* The variables of the pure-function specifications.
trendVars == <<tData, tQuery, tTrends, tStage>>
pureVars == <<mergeVars, aggVars, anVars, scoreVars, trendVars>>
vars == <<pureVars, sysVars>>

\* A JavaScript null where a dataset is expected.
Null == [null |-> TRUE]

\* The functions a specification does not call hold nothing.
MergeOff == mBase = Null /\ mOverlay = Null /\ mResult = Null /\ mStage = "off"
AggOff == gRawPRs = <<>> /\ gResult = Null /\ gStage = "off"
AnOff ==
  /\ aData = Null /\ aPop = Null /\ aTerms = Null /\ aEngineers = Null
  /\ aTop = Null /\ aLimit = 0 /\ aInsights = Null /\ aStage = "off"
ScoreOff == sC = Null /\ sPop = Null /\ sScore = Null /\ sStage = "off"
TrendOff == tData = Null /\ tQuery = Null /\ tTrends = Null /\ tStage = "off"

\* ------------------------------------------------------------- constants
CACHE_DURATION == 5 * 60 * 1000
MAX_RETRIES == 2
MAX_PAGES == 10

Callers == {1, 2}

\* The clock advances in steps of one cache lifetime.
TickMs == CACHE_DURATION
StartMs == CACHE_DURATION

\* The snapshot covers the pull requests BaseLo..BaseHi: pull request 1
\* predates the archive it was built from, the newest PageSize pull requests
\* were merged after it was built.
BaseLo == 1 + 1
BaseHi == HistLen - PageSize

RECURSIVE RowsDesc(_, _)
\* The upstream rows with the given numbers, newest first, from number i down.
RowsDesc(nums, i) ==
  IF i <= 0 THEN <<>>
  ELSE (IF i \in nums THEN <<RawPRAt(i)>> ELSE <<>>) \o RowsDesc(nums, i - 1)

RECURSIVE RowsAsc(_, _)
\* The upstream rows with the given numbers, oldest first, from number i on.
RowsAsc(nums, i) ==
  IF i > HistLen THEN <<>>
  ELSE (IF i \in nums THEN <<RawPRAt(i)>> ELSE <<>>) \o RowsAsc(nums, i + 1)

\* import('@/data/github_data.json')
StaticSnapshot == SnapshotOf(RowsAsc(BaseLo..BaseHi, 1))

\* A call that is not running holds nothing.  fetchStartedAt is the time the
\* running call began its overlay fetch (0: it has not); waited is the
\* backoff delay, in ms, the current attempt of fetchPage followed (0: it is
\* the first attempt).
IdleCall ==
  [ pc |-> "idle", baseData |-> Null, knownPrNumbers |-> {}, recentPRs |-> <<>>,
    pages |-> 0, attempt |-> 0, waited |-> 0, fetchStartedAt |-> 0 ]

\* skipped: the last invocation returned at the backfillComplete check.
IdleRoute ==
  [ pc |-> "idle", maxPages |-> 0, pages |-> 0, olderPRs |-> <<>>,
    skipped |-> FALSE ]

\* fetchedPages: the backfill pages fetched so far, over all invocations;
\* refetched: one of them was fetched again; originSeen: a fetched backfill
\* page had no next page; cacheBase, cacheFailed: the base-plus-backfill
\* dataset of the call that wrote cachedData, and whether its overlay fetch
\* had given up on a failed page; refilled: cachedData replaced a dataset
\* that was cached.
NoHistory ==
  [ fetchedPages |-> {}, refetched |-> FALSE, originSeen |-> FALSE,
    cacheBase |-> Null, cacheFailed |-> FALSE, refilled |-> FALSE ]

SysIdle ==
  /\ now = StartMs
  /\ cachedData = Null
  /\ cacheTimestamp = 0
  /\ backfillData = Null
  /\ backfillComplete = FALSE
  /\ calls = [c \in Callers |-> IdleCall]
  /\ route = IdleRoute
  /\ hist = NoHistory

\* -------------------------------------------- mergeData on drawn inputs
\* base: a snapshot of any part of the history; overlay: the aggregate of
\* any part of it (overlapping the snapshot or not), fetched newest first.
MergeInit ==
  /\ \E nums \in SUBSET (1..HistLen) : mBase = SnapshotOf(RowsAsc(nums, 1))
  /\ \E nums \in SUBSET (1..HistLen) :
        mOverlay = aggregateRawPRs(RowsDesc(nums, HistLen))
  /\ mResult = Null
  /\ mStage = "input"
  /\ hasToken = FALSE
  /\ pagesParam = 1
  /\ SysIdle
  /\ AggOff /\ AnOff /\ ScoreOff /\ TrendOff

MergeStep ==
  /\ mStage = "input"
  /\ mResult' = mergeData(mBase, mOverlay)
  /\ mStage' = "merged"
  /\ UNCHANGED <<mBase, mOverlay>>
  /\ UNCHANGED <<aggVars, anVars, scoreVars, trendVars, sysVars>>

MergeNext == MergeStep

MergeSpec == MergeInit /\ [][MergeNext]_vars

\* ---------------------------------------------------------------- claims
PrsAuthoredBy(d, u) ==
  Cardinality({i \in DOMAIN d.prs : d.prs[i].author_username = u})

\* Every contributor's prs_created is the number of PR records it authored.
CountsMatchPrs(d) ==
  \A u \in DOMAIN d.contributors :
    d.contributors[u].prs_created = PrsAuthoredBy(d, u)

OverlayOverlapsBase ==
  \E i \in DOMAIN mOverlay.prs : DedupKey(mOverlay.prs[i]) \in ExistingPrs(mBase)

OverlayWithinBase ==
  \A i \in DOMAIN mOverlay.prs : DedupKey(mOverlay.prs[i]) \in ExistingPrs(mBase)

\* C1: no double-counting.  If prs_created matches the PR records in the base
\* and in the overlay, it matches them in mergeData's result too, whatever
\* dedup keys the overlay shares with the base.
C1_NoDoubleCounting ==
  (mStage = "merged" /\ CountsMatchPrs(mBase) /\ CountsMatchPrs(mOverlay))
    => CountsMatchPrs(mResult)

\* C2: merge idempotence.  When every overlay PR's dedup key is already in
\* the base, the result's contributors map and PR list equal the base's.
C2_MergeIdempotence ==
  (mStage = "merged" /\ OverlayWithinBase)
    => /\ mResult.contributors = mBase.contributors
       /\ mResult.prs = mBase.prs

InBoth == (DOMAIN mBase.contributors) \cap (DOMAIN mOverlay.contributors)

\* C9: for a contributor in base and overlay, prs_created is the sum of the
\* two counts and avg_time_to_merge_hours is the weighted mean S / T rounded
\* half up to two decimals (S = base_avg * base_prs + overlay_avg *
\* overlay_prs, T = base_prs + overlay_prs), and 0 when T = 0.
C9_WeightedAverage ==
  mStage = "merged" =>
    \A u \in InBoth :
      LET b == mBase.contributors[u]
          o == mOverlay.contributors[u]
          r == mResult.contributors[u]
          T == b.prs_created + o.prs_created
          S == b.avg_time_to_merge_hours * b.prs_created
               + o.avg_time_to_merge_hours * o.prs_created
          h == r.avg_time_to_merge_hours
      IN /\ r.prs_created = T
         /\ T = 0 => h = 0
         /\ T > 0 => (2 * h * T <= 2 * S + T /\ 2 * S + T < 2 * h * T + 2 * T)

\* A merge of a contributor whose weighted mean differs from the plain mean
\* of the two averages.
C9_Witness ==
  /\ mStage = "merged"
  /\ \E u \in InBoth :
       LET b == mBase.contributors[u]
           o == mOverlay.contributors[u]
           h == mResult.contributors[u].avg_time_to_merge_hours
       IN /\ b.prs_created > 0 /\ o.prs_created > 0
          /\ b.prs_created # o.prs_created
          /\ h # RoundDiv(b.avg_time_to_merge_hours + o.avg_time_to_merge_hours, 2)

CountIn(seq, x) == Cardinality({i \in DOMAIN seq : seq[i] = x})

\* C10: the merged PR list holds exactly every base PR plus every overlay PR
\* whose dedup key is absent from the base, newest merge first.
C10_PrList ==
  mStage = "merged" =>
    /\ \A x \in SeqToSet(mResult.prs) \cup SeqToSet(mBase.prs) \cup SeqToSet(mOverlay.prs) :
         CountIn(mResult.prs, x) =
           CountIn(mBase.prs, x)
           + (IF DedupKey(x) \in ExistingPrs(mBase) THEN 0 ELSE CountIn(mOverlay.prs, x))
    /\ \A i, j \in DOMAIN mResult.prs :
         i < j => mResult.prs[i].merged_at >= mResult.prs[j].merged_at

\* A merge where the overlay holds a PR the base has and a PR it lacks, and
\* the new PR is older than a base PR (so the sort has to move it).
C10_Witness ==
  /\ mStage = "merged"
  /\ OverlayOverlapsBase
  /\ \E i \in DOMAIN mOverlay.prs, j \in DOMAIN mBase.prs :
       /\ DedupKey(mOverlay.prs[i]) \notin ExistingPrs(mBase)
       /\ mOverlay.prs[i].merged_at < mBase.prs[j].merged_at

\* ------------------------------------------------------- upstream pages
Max2(a, b) == IF a >= b THEN a ELSE b
Min2(a, b) == IF a <= b THEN a ELSE b

\* The page after `pages` pages of PR_QUERY (CREATED_AT DESC, first: PageSize).
DescPage(pages) ==
  LET hi == HistLen - pages * PageSize
      lo == Max2(hi - PageSize + 1, 1)
  IN [ nodes |-> RowsDesc(lo..hi, hi), hasNextPage |-> lo > 1 ]

\* The page after `pages` pages of OLD_PR_QUERY (CREATED_AT ASC).
AscPage(pages) ==
  LET lo == pages * PageSize + 1
      hi == Min2(lo + PageSize - 1, HistLen)
  IN [ nodes |-> RowsAsc(lo..hi, lo), hasNextPage |-> hi < HistLen ]

\* --------------------------------------------------------- getGitHubData
RECURSIVE ScanNodes(_, _, _)
\* for (const pr of prs.nodes) { if (known) { hitExisting = true; break; } push }
ScanNodes(nodes, knownPrNumbers, recentPRs) ==
  IF nodes = <<>> THEN [recentPRs |-> recentPRs, hitExisting |-> FALSE]
  ELSE IF Head(nodes).number \in knownPrNumbers
       THEN [recentPRs |-> recentPRs, hitExisting |-> TRUE]
       ELSE ScanNodes(Tail(nodes), knownPrNumbers, Append(recentPRs, Head(nodes)))

\* The numbers captured from the titles of the base PRs.
KnownPrNumbers(baseData) ==
  {baseData.prs[i].title : i \in {j \in DOMAIN baseData.prs : baseData.prs[j].title # 0}}

CacheFresh == cachedData # Null /\ now - cacheTimestamp < CACHE_DURATION

\* The dataset getGitHubData ends with: the overlay is merged when
\* fetchRecentPRs returned any pull request.
WithOverlay(baseData, recentRaw) ==
  IF Len(recentRaw) > 0
  THEN mergeData(baseData, aggregateRawPRs(recentRaw))
  ELSE baseData

\* fetchRecentPRs returns recentRaw; getGitHubData merges, caches, returns.
GetFinish(c, baseData, recentRaw, failed) ==
  LET final == WithOverlay(baseData, recentRaw) IN
  /\ cachedData' = final
  /\ cacheTimestamp' = now
  /\ calls' = [calls EXCEPT ![c] = IdleCall]
  /\ hist' = [hist EXCEPT !.cacheBase = baseData, !.cacheFailed = failed,
                          !.refilled = (cachedData # Null)]

\* A call begins: a fresh cache is returned at once, else the snapshot import
\* is awaited.
GetStart(c) ==
  /\ calls[c].pc = "idle"
  /\ calls' = [calls EXCEPT ![c] =
       [IdleCall EXCEPT !.pc = IF CacheFresh THEN "idle" ELSE "import"]]
  /\ UNCHANGED <<pureVars, now, hasToken, pagesParam, cachedData,
                 cacheTimestamp, backfillData, backfillComplete, route, hist>>

\* GetLoad starting from the cached dataset, when there is one, instead of
\* the imported snapshot.
GetLoadFromCache(c) ==
  /\ calls[c].pc = "import"
  /\ LET imported == IF cachedData # Null THEN cachedData ELSE StaticSnapshot
         baseData == IF backfillData # Null
                     THEN mergeData(imported, backfillData)
                     ELSE imported
     IN IF hasToken /\ 0 < MAX_PAGES
        THEN /\ calls' = [calls EXCEPT ![c] =
                  [@ EXCEPT !.pc = "fetch", !.baseData = baseData,
                            !.knownPrNumbers = KnownPrNumbers(baseData),
                            !.recentPRs = <<>>, !.pages = 0, !.attempt = 1,
                            !.fetchStartedAt = now]]
             /\ UNCHANGED <<cachedData, cacheTimestamp, hist>>
        ELSE GetFinish(c, baseData, <<>>, FALSE)
  /\ UNCHANGED <<pureVars, now, hasToken, pagesParam, backfillData,
                 backfillComplete, route>>

\* GetLoad with a fetchRecentPRs that does not look at the token.
GetLoadTokenless(c) ==
  /\ calls[c].pc = "import"
  /\ LET baseData == IF backfillData # Null
                     THEN mergeData(StaticSnapshot, backfillData)
                     ELSE StaticSnapshot
     IN IF 0 < MAX_PAGES
        THEN /\ calls' = [calls EXCEPT ![c] =
                  [@ EXCEPT !.pc = "fetch", !.baseData = baseData,
                            !.knownPrNumbers = KnownPrNumbers(baseData),
                            !.recentPRs = <<>>, !.pages = 0, !.attempt = 1,
                            !.fetchStartedAt = now]]
             /\ UNCHANGED <<cachedData, cacheTimestamp, hist>>
        ELSE GetFinish(c, baseData, <<>>, FALSE)
  /\ UNCHANGED <<pureVars, now, hasToken, pagesParam, backfillData,
                 backfillComplete, route>>

\* After the import: merge the backfill, collect the known numbers, and start
\* fetchRecentPRs (which returns [] at once without a token).
GetLoad(c) ==
  /\ calls[c].pc = "import"
  /\ LET baseData == IF backfillData # Null
                     THEN mergeData(StaticSnapshot, backfillData)
                     ELSE StaticSnapshot
     IN IF hasToken /\ 0 < MAX_PAGES
        THEN /\ calls' = [calls EXCEPT ![c] =
                  [@ EXCEPT !.pc = "fetch", !.baseData = baseData,
                            !.knownPrNumbers = KnownPrNumbers(baseData),
                            !.recentPRs = <<>>, !.pages = 0, !.attempt = 1,
                            !.fetchStartedAt = now]]
             /\ UNCHANGED <<cachedData, cacheTimestamp, hist>>
        ELSE GetFinish(c, baseData, <<>>, FALSE)
  /\ UNCHANGED <<pureVars, now, hasToken, pagesParam, backfillData,
                 backfillComplete, route>>

\* GetResponse with a fetchPage that retries while attempt <= MAX_RETRIES.
GetResponseOneMore(c) ==
  /\ calls[c].pc = "fetch"
  /\ \E ok \in BOOLEAN :
       LET call == calls[c] IN
       IF ok
       THEN LET prs  == DescPage(call.pages)
                scan == ScanNodes(prs.nodes, call.knownPrNumbers, call.recentPRs)
            IN IF scan.hitExisting
               THEN GetFinish(c, call.baseData, scan.recentPRs, FALSE)
               ELSE IF prs.hasNextPage /\ call.pages + 1 < MAX_PAGES
                    THEN /\ calls' = [calls EXCEPT ![c] =
                              [@ EXCEPT !.recentPRs = scan.recentPRs,
                                        !.pages = @ + 1, !.attempt = 1,
                                        !.waited = 0]]
                         /\ UNCHANGED <<cachedData, cacheTimestamp, hist>>
                    ELSE GetFinish(c, call.baseData, scan.recentPRs, FALSE)
       ELSE IF call.attempt <= MAX_RETRIES
            THEN /\ calls' = [calls EXCEPT ![c] =
                      [@ EXCEPT !.attempt = @ + 1,
                                !.waited = 1000 * 2 ^ (call.attempt - 1)]]
                 /\ UNCHANGED <<cachedData, cacheTimestamp, hist>>
            ELSE GetFinish(c, call.baseData, call.recentPRs, TRUE)
  /\ UNCHANGED <<pureVars, now, hasToken, pagesParam, backfillData,
                 backfillComplete, route>>

\* The response to a page request arrives, or the request fails (network
\* error, timeout, error status, GraphQL errors: fetchPage throws or retries).
\* A retry follows its backoff delay in the same step: nothing else reads or
\* writes this call's state in between.
GetResponse(c) ==
  /\ calls[c].pc = "fetch"
  /\ \E ok \in BOOLEAN :
       LET call == calls[c] IN
       IF ok
       THEN LET prs  == DescPage(call.pages)
                scan == ScanNodes(prs.nodes, call.knownPrNumbers, call.recentPRs)
            IN IF scan.hitExisting
               THEN GetFinish(c, call.baseData, scan.recentPRs, FALSE)
               ELSE IF prs.hasNextPage /\ call.pages + 1 < MAX_PAGES
                    THEN /\ calls' = [calls EXCEPT ![c] =
                              [@ EXCEPT !.recentPRs = scan.recentPRs,
                                        !.pages = @ + 1, !.attempt = 1,
                                        !.waited = 0]]
                         /\ UNCHANGED <<cachedData, cacheTimestamp, hist>>
                    ELSE GetFinish(c, call.baseData, scan.recentPRs, FALSE)
       ELSE IF call.attempt < MAX_RETRIES
            THEN /\ calls' = [calls EXCEPT ![c] =
                      [@ EXCEPT !.attempt = @ + 1,
                                !.waited = 1000 * 2 ^ (call.attempt - 1)]]
                 /\ UNCHANGED <<cachedData, cacheTimestamp, hist>>
            ELSE GetFinish(c, call.baseData, call.recentPRs, TRUE)
  /\ UNCHANGED <<pureVars, now, hasToken, pagesParam, backfillData,
                 backfillComplete, route>>

\* ------------------------------------------------------- backfill route
\* fetchOlderPRs returned olderPRs: the rest of GET.  setBackfillData
\* replaces the overlay and empties the cache.
RouteFinish(olderPRs, hist2) ==
  /\ route' = IdleRoute
  /\ IF Len(olderPRs) = 0
     THEN /\ backfillComplete' = TRUE
          /\ hist' = hist2
          /\ UNCHANGED <<backfillData, cachedData, cacheTimestamp>>
     ELSE /\ backfillData' = aggregateRawPRs(olderPRs)
          /\ cachedData' = Null
          /\ cacheTimestamp' = 0
          /\ hist' = [hist2 EXCEPT !.cacheBase = Null, !.cacheFailed = FALSE,
                                   !.refilled = FALSE]
          /\ backfillComplete' =
               (backfillComplete \/ Len(olderPRs) < route.maxPages * PageSize)

\* Mutation of RouteStart: the backfillComplete check is missing.
RouteStartUnchecked ==
  /\ route.pc = "idle"
  /\ \E authorized \in BOOLEAN :
       route' =
         IF ~authorized THEN IdleRoute
         ELSE IF ~hasToken THEN IdleRoute
         ELSE [IdleRoute EXCEPT !.pc = "fetch", !.maxPages = pagesParam]
  /\ UNCHANGED <<pureVars, now, hasToken, pagesParam, cachedData,
                 cacheTimestamp, backfillData, backfillComplete, calls, hist>>

\* GET /api/cron/backfill?pages=pagesParam begins.  The responses it returns
\* at once (done, 401, 500) leave no trace but `skipped`.
RouteStart ==
  /\ route.pc = "idle"
  /\ \E authorized \in BOOLEAN :
       route' =
         IF backfillComplete THEN [IdleRoute EXCEPT !.skipped = TRUE]
         ELSE IF ~authorized THEN IdleRoute
         ELSE IF ~hasToken THEN IdleRoute
         ELSE [IdleRoute EXCEPT !.pc = "fetch", !.maxPages = pagesParam]
  /\ UNCHANGED <<pureVars, now, hasToken, pagesParam, cachedData,
                 cacheTimestamp, backfillData, backfillComplete, calls, hist>>

\* The response to a fetchOlderPRs page request arrives, or the request fails.
RouteResponse ==
  /\ route.pc = "fetch"
  /\ \E ok \in BOOLEAN :
       IF ok
       THEN LET prs      == AscPage(route.pages)
                olderPRs == route.olderPRs \o prs.nodes
                pages    == route.pages + 1
                hist2    == [hist EXCEPT
                              !.fetchedPages = @ \cup {pages},
                              !.refetched = @ \/ pages \in hist.fetchedPages,
                              !.originSeen = @ \/ ~prs.hasNextPage ]
            IN IF prs.hasNextPage /\ pages < route.maxPages
               THEN /\ route' = [route EXCEPT !.olderPRs = olderPRs, !.pages = pages]
                    /\ hist' = hist2
                    /\ UNCHANGED <<backfillData, backfillComplete, cachedData,
                                   cacheTimestamp>>
               ELSE RouteFinish(olderPRs, hist2)
       ELSE RouteFinish(route.olderPRs, hist)
  /\ UNCHANGED <<pureVars, now, hasToken, pagesParam, calls>>

\* ----------------------------------------------------------------- clock
Tick ==
  /\ now < StartMs + MaxTicks * TickMs
  /\ now' = now + TickMs
  /\ UNCHANGED <<pureVars, hasToken, pagesParam, cachedData, cacheTimestamp,
                 backfillData, backfillComplete, calls, route, hist>>

Init ==
  /\ MergeOff /\ AggOff /\ AnOff /\ ScoreOff /\ TrendOff
  /\ hasToken \in BOOLEAN
  /\ pagesParam \in 1..MaxPagesParam
  /\ SysIdle

Next ==
  \/ \E c \in Callers : GetStart(c)
  \/ \E c \in Callers : GetLoad(c)
  \/ \E c \in Callers : GetResponse(c)
  \/ RouteStart
  \/ RouteResponse
  \/ Tick

Spec == Init /\ [][Next]_vars

\* ------------------------------------------------- claims on the system
InFlight(c) == calls[c].pc = "fetch"

\* C3: when the overlay fetch gave up on a failed page, the dataset the call
\* returned and cached is its base-plus-backfill dataset, unmodified.
C3_FailedFetchFallsBack ==
  (cachedData # Null /\ hist.cacheFailed)
    => /\ cachedData.contributors = hist.cacheBase.contributors
       /\ cachedData.prs = hist.cacheBase.prs

\* C4: two overlay fetches are never started less than one cache lifetime
\* apart: here, by two calls that are both still fetching.
C4_OneFetchPerWindow ==
  \A c1, c2 \in Callers :
    (c1 # c2 /\ InFlight(c1) /\ InFlight(c2)
       /\ calls[c1].fetchStartedAt <= calls[c2].fetchStartedAt)
      => calls[c2].fetchStartedAt - calls[c1].fetchStartedAt >= CACHE_DURATION

\* Every PR of the overlay d is in the dataset.
HasMerged(data, d) ==
  \A i \in DOMAIN d.prs : DedupKey(d.prs[i]) \in ExistingPrs(data)

\* C5: once setBackfillData(d) has run, a call that starts now returns a
\* dataset holding d.  A call that starts while the cache is fresh returns
\* cachedData at once, so a fresh cache must hold the current overlay.
C5_BackfillVisible ==
  (backfillData # Null /\ CacheFresh) => HasMerged(cachedData, backfillData)

\* C6: the flag, once set, stays set, and an invocation that begins with the
\* flag set returns at once: it starts no fetch and leaves the backfill
\* overlay, the cache and the flag as they are.
C6_CompleteIsFinal ==
  [][ backfillComplete =>
        /\ backfillComplete'
        /\ route.pc = "idle"
        /\ route'.pc = "idle"
        /\ (route' # route =>
              /\ route'.skipped
              /\ UNCHANGED <<backfillData, cachedData, cacheTimestamp, hist>>)
    ]_vars

\* The flag is set and an invocation has since returned at the check.
C6_Witness == backfillComplete /\ route.skipped /\ backfillData # Null

\* C7: an invocation continues where the previous one ended: no backfill
\* page is fetched a second time.
C7_NoPageRefetched == ~hist.refetched

\* C8: the flag is set only after a fetched page reported no next page.
C8_CompleteOnlyAtOrigin == backfillComplete => hist.originSeen

\* ------------------------------------- aggregateRawPRs on drawn batches
\* What the upstream API can return for pull request i: the pull request as
\* it is, or with its author deleted, or opened by a bot, or with a
\* timestamp string that does not parse.
RawKinds == {"ok", "noauthor", "botauthor", "badcreated", "badmerged"}

RawVariant(i, kind) ==
  CASE kind = "noauthor"   -> [RawPRAt(i) EXCEPT !.author = NullAuthor]
    [] kind = "botauthor"  -> [RawPRAt(i) EXCEPT !.author = ApiAuthor("dep[bot]")]
    [] kind = "badcreated" -> [RawPRAt(i) EXCEPT !.createdAt = InvalidDate]
    [] kind = "badmerged"  -> [RawPRAt(i) EXCEPT !.mergedAt = InvalidDate]
    [] OTHER               -> RawPRAt(i)

RECURSIVE BatchDesc(_, _)
\* The batch holding pull request n as kindOf[n], newest first, from i down.
BatchDesc(kindOf, i) ==
  IF i <= 0 THEN <<>>
  ELSE (IF i \in DOMAIN kindOf THEN <<RawVariant(i, kindOf[i])>> ELSE <<>>)
       \o BatchDesc(kindOf, i - 1)

AggInit ==
  /\ \E nums \in SUBSET (1..HistLen) : \E kindOf \in [nums -> RawKinds] :
        gRawPRs = BatchDesc(kindOf, HistLen)
  /\ gResult = Null
  /\ gStage = "input"
  /\ hasToken = FALSE
  /\ pagesParam = 1
  /\ SysIdle
  /\ MergeOff /\ AnOff /\ ScoreOff /\ TrendOff

AggStep ==
  /\ gStage = "input"
  /\ gResult' = aggregateRawPRs(gRawPRs)
  /\ gStage' = "aggregated"
  /\ UNCHANGED gRawPRs
  /\ UNCHANGED <<mergeVars, anVars, scoreVars, trendVars, sysVars>>

AggNext == AggStep

AggSpec == AggInit /\ [][AggNext]_vars

\* --------------------------------------------- claims on aggregateRawPRs
BotAuthored(pr) == pr.author # NullAuthor /\ EndsWithBot(pr.author.login)

Malformed(pr) ==
  pr.author = NullAuthor \/ IsNaNDate(pr.createdAt) \/ IsNaNDate(pr.mergedAt)

\* The raw pull requests of the batch that aggregation keeps.
KeptRaw == SelectSeq(gRawPRs, LAMBDA pr : ~Malformed(pr) /\ ~BotAuthored(pr))

\* The review events of a raw pull request that no bot authored.
HumanReviews(pr) ==
  SelectSeq(pr.reviews, LAMBDA ra : ra = NullAuthor \/ ~EndsWithBot(ra.login))

\* The review events of the kept pull requests that login authored.
ReviewEventsBy(login) ==
  SumSeq([i \in DOMAIN KeptRaw |->
           Len(SelectSeq(KeptRaw[i].reviews,
                         LAMBDA ra : ra # NullAuthor /\ ra.login = login))])

\* C17: aggregateRawPRs yields no contributor record of a bot, no PR record
\* authored by a bot, no bot in any reviewers list, and no counter
\* (prs_created, reviews_given, prs_reviewed, reviews_count) counts an event
\* a bot authored:
\* the k-th PR record is the k-th kept pull request and its reviews_count is
\* the number of its review events that no bot authored.
C17_BotExclusion ==
  gStage = "aggregated" =>
    /\ \A u \in DOMAIN gResult.contributors : ~EndsWithBot(u)
    /\ Len(gResult.prs) = Len(KeptRaw)
    /\ \A u \in DOMAIN gResult.contributors :
         /\ gResult.contributors[u].prs_created =
              Cardinality({i \in DOMAIN KeptRaw : KeptRaw[i].author.login = u})
         /\ gResult.contributors[u].reviews_given = ReviewEventsBy(u)
         /\ gResult.contributors[u].prs_reviewed =
              Cardinality({i \in DOMAIN KeptRaw :
                \E k \in DOMAIN KeptRaw[i].reviews :
                  /\ KeptRaw[i].reviews[k] # NullAuthor
                  /\ KeptRaw[i].reviews[k].login = u})
    /\ \A i \in DOMAIN gResult.prs :
         /\ ~EndsWithBot(gResult.prs[i].author_username)
         /\ \A j \in DOMAIN gResult.prs[i].reviewers :
              ~EndsWithBot(gResult.prs[i].reviewers[j])
         /\ gResult.prs[i].reviews_count = Len(HumanReviews(KeptRaw[i]))

WellFormed == SelectSeq(gRawPRs, LAMBDA pr : ~Malformed(pr))

\* C18: a raw pull request without author or with an unparseable createdAt
\* or mergedAt is dropped: the result is the aggregate of the batch without
\* the malformed records, and no PR record carries an unparseable timestamp.
C18_MalformedDropped ==
  gStage = "aggregated" =>
    /\ gResult = aggregateRawPRs(WellFormed)
    /\ Len(gResult.prs) = Len(KeptRaw)
    /\ \A i \in DOMAIN gResult.prs :
         /\ ~IsNaNDate(gResult.prs[i].created_at)
         /\ ~IsNaNDate(gResult.prs[i].merged_at)
         /\ gResult.prs[i].author_username = KeptRaw[i].author.login

\* C18 witness: a batch with a record of each malformed kind between
\* well-formed records has been aggregated.
C18_Witness ==
  /\ gStage = "aggregated"
  /\ \E i, j, k \in DOMAIN gRawPRs :
       /\ gRawPRs[i].author = NullAuthor
       /\ IsNaNDate(gRawPRs[j].createdAt) \/ IsNaNDate(gRawPRs[j].mergedAt)
       /\ ~Malformed(gRawPRs[k]) /\ ~BotAuthored(gRawPRs[k])
  /\ Len(gResult.prs) >= 1
  /\ Len(gResult.prs) < Len(gRawPRs)

\* ================================================================ analyzer
\* src/frontend/src/lib/analyzer.ts.  Scores are JavaScript numbers; the
\* model computes them as exact fractions [n, d] in lowest terms (d > 0) and
\* rounds where the code rounds.  Emitted scores are integers counted in
\* tenths (Math.round(x * 10) / 10), avg hours in hundredths of an hour.
RECURSIVE GCD(_, _)
GCD(a, b) == IF b = 0 THEN a ELSE GCD(b, a % b)

Abs(x) == IF x < 0 THEN 0 - x ELSE x

Frac(n, d) ==
  LET g == GCD(Abs(n), d) IN [n |-> n \div g, d |-> d \div g]

Whole(k) == [n |-> k, d |-> 1]

RAdd(a, b) ==
  LET g == GCD(a.d, b.d)
  IN Frac(a.n * (b.d \div g) + b.n * (a.d \div g), (a.d \div g) * b.d)

RMul(a, b) ==
  LET x == Frac(a.n, b.d)
      y == Frac(b.n, a.d)
  IN Frac(x.n * y.n, x.d * y.d)

RSub(a, b) == RAdd(a, [n |-> 0 - b.n, d |-> b.d])

\* a / b for b > 0.
RDiv(a, b) == RMul(a, [n |-> b.d, d |-> b.n])

RLe(a, b) == a.n * b.d <= b.n * a.d
RLt(a, b) == a.n * b.d < b.n * a.d
RMin(a, b) == IF RLe(a, b) THEN a ELSE b
RMax(a, b) == IF RLe(a, b) THEN b ELSE a

\* Math.round(x * 10) / 10, in tenths.
Round1(x) == (20 * x.n + x.d) \div (2 * x.d)

\* Math.min(x, 1) * 100
Capped100(x) == RMul(RMin(x, Whole(1)), Whole(100))

\* ------------------------------------------------------- Object.keys order
\* Object.keys, Object.values and Object.entries enumerate the keys that are
\* canonical array indices first, in ascending numeric order, then the other
\* string keys in insertion order.  A login made of digits is such a key.
IndexLogins == {"7", "12"}
IndexValue(login) == IF login = "7" THEN 7 ELSE 12

RECURSIVE InsertIndexKey(_, _)
InsertIndexKey(sorted, k) ==
  IF sorted = <<>> THEN <<k>>
  ELSE IF IndexValue(k) < IndexValue(Head(sorted)) THEN <<k>> \o sorted
  ELSE <<Head(sorted)>> \o InsertIndexKey(Tail(sorted), k)

RECURSIVE SortIndexKeys(_, _)
SortIndexKeys(sorted, rest) ==
  IF rest = <<>> THEN sorted
  ELSE SortIndexKeys(InsertIndexKey(sorted, Head(rest)), Tail(rest))

\* order: the keys of the object in insertion order.
ObjectKeys(order) ==
  SortIndexKeys(<<>>, SelectSeq(order, LAMBDA k : k \in IndexLogins))
  \o SelectSeq(order, LAMBDA k : k \notin IndexLogins)

\* ------------------------------------------------------- population stats
RECURSIVE InsertAsc(_, _)
InsertAsc(sorted, x) ==
  IF sorted = <<>> THEN <<x>>
  ELSE IF x < Head(sorted) THEN <<x>> \o sorted
  ELSE <<Head(sorted)>> \o InsertAsc(Tail(sorted), x)

RECURSIVE SortAsc(_, _)
\* .sort((a, b) => a - b)
SortAsc(sorted, rest) ==
  IF rest = <<>> THEN sorted
  ELSE SortAsc(InsertAsc(sorted, Head(rest)), Tail(rest))

RECURSIVE MaxOf(_, _)
\* Math.max(...xs, floor)
MaxOf(xs, floor) ==
  IF xs = <<>> THEN floor ELSE MaxOf(Tail(xs), Max2(Head(xs), floor))

RECURSIVE RMaxOf(_, _)
RMaxOf(xs, floor) ==
  IF xs = <<>> THEN floor ELSE RMaxOf(Tail(xs), RMax(Head(xs), floor))

\* total_files_changed / Math.max(prs_created, 1)
AvgFilesPerPr(c) == Frac(c.total_files_changed, Max2(c.prs_created, 1))

\* The fallback of the ?? operator and of the empty population, in
\* hundredths of an hour.
FallbackP90 == 72 * 100

\* The filter with the threshold one too low.
IsEligibleFromOne(c) == c.prs_created >= 1

\* (c) => c.prs_created >= 2
IsEligible(c) == c.prs_created >= 2

EmptyPopulationStats ==
  [ maxPrs |-> 1, maxReviewsGiven |-> 1, maxFilesChanged |-> 1,
    maxAvgFilesPerPr |-> Whole(1), maxCombined |-> 1,
    p90MergeHours |-> FallbackP90 ]

\* StatsOf taking the greatest merge hours for the 90th percentile.
StatsOfGreatest(eligible) ==
  LET Field(F(_)) == [i \in DOMAIN eligible |-> F(eligible[i])]
      positive == SelectSeq(eligible, LAMBDA c : c.avg_time_to_merge_hours > 0)
      mergeTimes ==
        SortAsc(<<>>, [i \in DOMAIN positive |-> positive[i].avg_time_to_merge_hours])
      p90Idx == Len(mergeTimes) - 1
  IN [ maxPrs |-> MaxOf(Tail(Field(LAMBDA c : c.prs_created)),
                        eligible[1].prs_created),
       maxReviewsGiven |-> MaxOf(Field(LAMBDA c : c.reviews_given), 1),
       maxFilesChanged |-> MaxOf(Field(LAMBDA c : c.total_files_changed), 1),
       maxAvgFilesPerPr |-> RMaxOf(Field(LAMBDA c : AvgFilesPerPr(c)), Whole(1)),
       maxCombined |-> MaxOf(Field(LAMBDA c : c.prs_created + c.reviews_given), 1),
       p90MergeHours |-> IF p90Idx + 1 \in DOMAIN mergeTimes
                         THEN mergeTimes[p90Idx + 1] ELSE FallbackP90 ]

\* The statistics of a non-empty eligible list.
StatsOf(eligible) ==
  LET Field(F(_)) == [i \in DOMAIN eligible |-> F(eligible[i])]
      positive == SelectSeq(eligible, LAMBDA c : c.avg_time_to_merge_hours > 0)
      mergeTimes ==
        SortAsc(<<>>, [i \in DOMAIN positive |-> positive[i].avg_time_to_merge_hours])
      p90Idx == (9 * Len(mergeTimes)) \div 10
  IN [ maxPrs |-> MaxOf(Tail(Field(LAMBDA c : c.prs_created)),
                        eligible[1].prs_created),
       maxReviewsGiven |-> MaxOf(Field(LAMBDA c : c.reviews_given), 1),
       maxFilesChanged |-> MaxOf(Field(LAMBDA c : c.total_files_changed), 1),
       maxAvgFilesPerPr |-> RMaxOf(Field(LAMBDA c : AvgFilesPerPr(c)), Whole(1)),
       maxCombined |-> MaxOf(Field(LAMBDA c : c.prs_created + c.reviews_given), 1),
       p90MergeHours |-> IF p90Idx + 1 \in DOMAIN mergeTimes
                         THEN mergeTimes[p90Idx + 1] ELSE FallbackP90 ]

\* Object.values(contributors).filter(...)
EligibleOf(data) ==
  LET keys == ObjectKeys(data.order)
  IN SelectSeq([i \in DOMAIN keys |-> data.contributors[keys[i]]], IsEligible)

\* computePopulationStats without the early return: Math.max() of no
\* argument is -Infinity.
computePopulationStatsNoGuard(data) ==
  LET eligible == EligibleOf(data)
  IN IF Len(eligible) = 0
     THEN [EmptyPopulationStats EXCEPT !.maxPrs = 0 - 1000000]
     ELSE StatsOf(eligible)

\* computePopulationStats with the fixed ceilings of the scoring version the
\* population-relative one replaced.
computePopulationStatsFixed(data) ==
  [ maxPrs |-> 10, maxReviewsGiven |-> 30, maxFilesChanged |-> 200,
    maxAvgFilesPerPr |-> Whole(15), maxCombined |-> 40,
    p90MergeHours |-> FallbackP90 ]

\* data: [contributors, order], the object and its keys' insertion order.
computePopulationStats(data) ==
  LET eligible == EligibleOf(data)
  IN IF Len(eligible) = 0 THEN EmptyPopulationStats ELSE StatsOf(eligible)

\* ------------------------------------------------------ scoring functions
\* Merge speed without the Math.min against the 90th percentile.
mergeScoreUncapped(c, pop) ==
  RMul(Whole(100),
       RAdd(Whole(1), Frac(0 - c.avg_time_to_merge_hours, pop.p90MergeHours)))

\* 100 * (1 - Math.min(avg, p90) / p90)
mergeScore(c, pop) ==
  LET mergeTime == Min2(c.avg_time_to_merge_hours, pop.p90MergeHours)
  IN RMul(Whole(100), RAdd(Whole(1), Frac(0 - mergeTime, pop.p90MergeHours)))

sizeScore(c) ==
  LET avgChanges == Frac(c.total_additions + c.total_deletions,
                         Max2(c.prs_created, 1))
  IN IF RLe(Whole(200), avgChanges) /\ RLe(avgChanges, Whole(500))
     THEN Whole(100)
     ELSE IF RLt(avgChanges, Whole(200))
     THEN RAdd(Whole(50), RMul(RDiv(avgChanges, Whole(200)), Whole(50)))
     ELSE RMax(Whole(50),
               RSub(Whole(100),
                    RDiv(RSub(avgChanges, Whole(500)), Whole(20))))

reviewActivity(c, pop) == Capped100(Frac(c.reviews_given, pop.maxReviewsGiven))

\* 0.5 * mergeScore + 0.3 * sizeScore + 0.2 * reviewActivity
calculateQualityScore(c, pop) ==
  RAdd(RAdd(RMul(Frac(1, 2), mergeScore(c, pop)),
            RMul(Frac(3, 10), sizeScore(c))),
       RMul(Frac(1, 5), reviewActivity(c, pop)))

consistencyScore(c, pop) == Capped100(Frac(c.prs_created, pop.maxPrs))

complexityScore(c, pop) ==
  Capped100(RDiv(AvgFilesPerPr(c), pop.maxAvgFilesPerPr))

\* 0.4 * consistencyScore + 0.6 * complexityScore
calculateVelocityScore(c, pop) ==
  RAdd(RMul(Frac(2, 5), consistencyScore(c, pop)),
       RMul(Frac(3, 5), complexityScore(c, pop)))

reviewVolume(c, pop) == Capped100(Frac(c.reviews_given, pop.maxReviewsGiven))

\* Review depth without the division by 3.
reviewDepthPerPr(c) ==
  IF c.prs_reviewed > 0
  THEN Capped100(Frac(c.reviews_given, c.prs_reviewed))
  ELSE Whole(0)

reviewDepth(c) ==
  IF c.prs_reviewed > 0
  THEN Capped100(RDiv(Frac(c.reviews_given, c.prs_reviewed), Whole(3)))
  ELSE Whole(0)

\* 0.7 * reviewVolume + 0.3 * reviewDepth
calculateCollaborationScore(c, pop) ==
  RAdd(RMul(Frac(7, 10), reviewVolume(c, pop)),
       RMul(Frac(3, 10), reviewDepth(c)))

ownership(c, pop) == Capped100(Frac(c.total_files_changed, pop.maxFilesChanged))

\* The balance term without the both-roles condition.
balanceUngated(c, pop) ==
  Capped100(Frac(c.prs_created + c.reviews_given, pop.maxCombined))

balance(c, pop) ==
  IF c.prs_created > 0 /\ c.reviews_given > 0
  THEN Capped100(Frac(c.prs_created + c.reviews_given, pop.maxCombined))
  ELSE Whole(0)

\* 0.6 * ownership + 0.4 * balance
calculateLeadershipScore(c, pop) ==
  RAdd(RMul(Frac(3, 5), ownership(c, pop)), RMul(Frac(2, 5), balance(c, pop)))

scoreContributor(username, c, pop) ==
  LET quality       == calculateQualityScore(c, pop)
      velocity      == calculateVelocityScore(c, pop)
      collaboration == calculateCollaborationScore(c, pop)
      leadership    == calculateLeadershipScore(c, pop)
      impact == RAdd(RAdd(RMul(Frac(3, 10), quality), RMul(Frac(3, 10), velocity)),
                     RAdd(RMul(Frac(1, 5), collaboration),
                          RMul(Frac(1, 5), leadership)))
  IN [ username |-> username,
       name |-> c.name,
       avatar_url |-> c.avatar_url,
       impact_score |-> Round1(impact),
       quality_score |-> Round1(quality),
       velocity_score |-> Round1(velocity),
       collaboration_score |-> Round1(collaboration),
       leadership_score |-> Round1(leadership),
       stats |-> [ prs_created |-> c.prs_created,
                   reviews_given |-> c.reviews_given,
                   files_changed |-> c.total_files_changed,
                   avg_merge_time |-> c.avg_time_to_merge_hours ] ]

\* The normalized terms scoreContributor computes on the way.
TermsOf(c, pop) ==
  [ mergeScore |-> mergeScore(c, pop), sizeScore |-> sizeScore(c),
    reviewActivity |-> reviewActivity(c, pop),
    consistencyScore |-> consistencyScore(c, pop),
    complexityScore |-> complexityScore(c, pop),
    reviewVolume |-> reviewVolume(c, pop), reviewDepth |-> reviewDepth(c),
    ownership |-> ownership(c, pop), balance |-> balance(c, pop) ]

\* ------------------------------------------------------------- public API
RECURSIVE InsertByImpactReversingTies(_, _)
\* An insertion that puts an engineer before the ones of equal impact.
InsertByImpactReversingTies(sorted, e) ==
  IF sorted = <<>> THEN <<e>>
  ELSE IF e.impact_score >= Head(sorted).impact_score THEN <<e>> \o sorted
  ELSE <<Head(sorted)>> \o InsertByImpactReversingTies(Tail(sorted), e)

RECURSIVE InsertByImpact(_, _)
\* scores.sort((a, b) => b.impact_score - a.impact_score): the sort is
\* stable, an engineer goes after the ones of equal impact before it.
InsertByImpact(sorted, e) ==
  IF sorted = <<>> THEN <<e>>
  ELSE IF e.impact_score > Head(sorted).impact_score THEN <<e>> \o sorted
  ELSE <<Head(sorted)>> \o InsertByImpact(Tail(sorted), e)

RECURSIVE SortByImpactDesc(_, _)
SortByImpactDesc(sorted, rest) ==
  IF rest = <<>> THEN sorted
  ELSE SortByImpactDesc(InsertByImpact(sorted, Head(rest)), Tail(rest))

\* The usernames the loop of analyzeEngineers scores, in loop order.
ScoredKeys(data) ==
  SelectSeq(ObjectKeys(data.order),
            LAMBDA username : ~(data.contributors[username].prs_created < 2))

analyzeEngineers(data) ==
  LET pop  == computePopulationStats(data)
      keys == ScoredKeys(data)
      scores == [i \in DOMAIN keys |->
                   scoreContributor(keys[i], data.contributors[keys[i]], pop)]
  IN SortByImpactDesc(<<>>, scores)

\* .slice(0, limit) for limit >= 0
Slice0(s, limit) == SubSeq(s, 1, Min2(limit, Len(s)))

analyzeTopEngineers(data, limit) == Slice0(analyzeEngineers(data), limit)

\* --------------------------------------------------------------- insights
RECURSIVE ReduceGreater(_, _, _)
\* xs.reduce((a, b) => key(a) > key(b) ? a : b) over the keys of xs: the
\* index of the element the fold returns; a is the accumulator's index, b
\* the index of the element met next.
ReduceGreater(keys, a, b) ==
  IF b > Len(keys) THEN a
  ELSE ReduceGreater(keys, IF keys[a] > keys[b] THEN a ELSE b, b + 1)

RECURSIVE ReduceLess(_, _, _)
\* xs.reduce((a, b) => key(a) < key(b) ? a : b)
ReduceLess(keys, a, b) ==
  IF b > Len(keys) THEN a
  ELSE ReduceLess(keys, IF keys[a] < keys[b] THEN a ELSE b, b + 1)

\* Math.min(quality_score, velocity_score, collaboration_score, leadership_score)
MinDimension(e) ==
  Min2(Min2(e.quality_score, e.velocity_score),
       Min2(e.collaboration_score, e.leadership_score))

\* An insight without its value and description strings.
InsightOf(label, e) ==
  [ label |-> label, username |-> e.username, name |-> e.name,
    avatar_url |-> e.avatar_url ]

\* generateInsights without the filter on avg_merge_time > 0: the fastest
\* merger is sought among all engineers.
generateInsightsUnfiltered(engineers) ==
  IF Len(engineers) = 0 THEN <<>>
  ELSE
    LET KeysOf(xs, F(_)) == [i \in DOMAIN xs |-> F(xs[i])]
        withMerge == engineers
        fastest ==
          IF Len(withMerge) > 0
          THEN <<InsightOf("Fastest Merger",
                 withMerge[ReduceLess(
                   KeysOf(withMerge, LAMBDA e : e.stats.avg_merge_time), 1, 2)])>>
          ELSE <<>>
        Champion(label, F(_)) ==
          InsightOf(label, engineers[ReduceGreater(KeysOf(engineers, F), 1, 2)])
    IN fastest
       \o << Champion("Review Champion", LAMBDA e : e.stats.reviews_given),
             Champion("Most Prolific", LAMBDA e : e.stats.prs_created),
             Champion("Broadest Reach", LAMBDA e : e.stats.files_changed),
             Champion("Most Well-Rounded", MinDimension) >>

generateInsights(engineers) ==
  IF Len(engineers) = 0 THEN <<>>
  ELSE
    LET KeysOf(xs, F(_)) == [i \in DOMAIN xs |-> F(xs[i])]
        withMerge == SelectSeq(engineers, LAMBDA e : e.stats.avg_merge_time > 0)
        fastest ==
          IF Len(withMerge) > 0
          THEN <<InsightOf("Fastest Merger",
                 withMerge[ReduceLess(
                   KeysOf(withMerge, LAMBDA e : e.stats.avg_merge_time), 1, 2)])>>
          ELSE <<>>
        Champion(label, F(_)) ==
          InsightOf(label, engineers[ReduceGreater(KeysOf(engineers, F), 1, 2)])
    IN fastest
       \o << Champion("Review Champion", LAMBDA e : e.stats.reviews_given),
             Champion("Most Prolific", LAMBDA e : e.stats.prs_created),
             Champion("Broadest Reach", LAMBDA e : e.stats.files_changed),
             Champion("Most Well-Rounded", MinDimension) >>

\* ------------------------------------------- the analyzer on drawn datasets
\* At most MaxEngineers contributors are drawn; a crowd of CrowdSize more,
\* all alike, joins them or not, so that the 90th percentile of the merge
\* hours can lie below the maximum.
MaxEngineers == 2
CrowdSize == 9

AnLogins == {"7", "12", "alice"}
CrowdLogins ==
  << "crowd01", "crowd02", "crowd03", "crowd04", "crowd05", "crowd06",
     "crowd07", "crowd08", "crowd09", "crowd10", "crowd11", "crowd12" >>

\* The counters a contributor record is drawn from: a reviewer who authored
\* nothing, the author of one large pull request, an author of two instantly
\* merged pull requests touching no file, an author and reviewer, and an
\* author of very large, slowly merged pull requests.
Activity(prs, files, additions, deletions, hours, given, reviewed) ==
  [ prs_created |-> prs, total_files_changed |-> files,
    total_additions |-> additions, total_deletions |-> deletions,
    avg_time_to_merge_hours |-> hours, reviews_given |-> given,
    prs_reviewed |-> reviewed ]

Profiles ==
  { Activity(0, 0, 0, 0, 0, 3, 1),
    Activity(1, 9, 900, 100, 500, 0, 0),
    Activity(2, 0, 100, 20, 0, 0, 0),
    Activity(3, 6, 900, 150, 250, 2, 2),
    Activity(2, 4, 7000, 0, 400, 0, 0) }

CrowdProfile == Activity(2, 1, 300, 0, 100, 1, 1)

\* ContributorData of login with the given counters.
ContributorOf(login, a) ==
  [ name |-> login, avatar_url |-> <<"api", login>>,
    prs_created |-> a.prs_created,
    total_files_changed |-> a.total_files_changed,
    total_additions |-> a.total_additions,
    total_deletions |-> a.total_deletions,
    avg_time_to_merge_hours |-> a.avg_time_to_merge_hours,
    reviews_given |-> a.reviews_given,
    prs_reviewed |-> a.prs_reviewed ]

\* The sequences of distinct drawn logins: the insertion orders.
InsertionOrders ==
  UNION { { s \in [1..n -> AnLogins] : \A i, j \in 1..n : i # j => s[i] # s[j] }
          : n \in 0..MaxEngineers }

\* The dataset whose contributors object received the keys of order, then
\* the crowd's if it joins, with the counters profileOf gives each.
DatasetOf(order, profileOf, withCrowd) ==
  LET crowd == IF withCrowd THEN SubSeq(CrowdLogins, 1, CrowdSize) ELSE <<>>
      all   == order \o crowd
  IN [ contributors |->
         [ u \in SeqToSet(all) |->
             ContributorOf(u, IF u \in SeqToSet(order) THEN profileOf[u]
                              ELSE CrowdProfile) ],
       order |-> all ]

\* The limits analyzeTopEngineers is called with; 5 is its default.
Limits == {1, 5}

AnInit ==
  /\ \E order \in InsertionOrders :
       \E profileOf \in [SeqToSet(order) -> Profiles] :
         \E withCrowd \in BOOLEAN :
           aData = DatasetOf(order, profileOf, withCrowd)
  /\ aPop = Null /\ aTerms = Null /\ aEngineers = Null
  /\ aTop = Null /\ aLimit = 0 /\ aInsights = Null
  /\ aStage = "input"
  /\ hasToken = FALSE
  /\ pagesParam = 1
  /\ SysIdle
  /\ MergeOff /\ AggOff /\ ScoreOff /\ TrendOff

\* What one pass of analyzeEngineers over data computes.
AnalysisOf(data) ==
  LET pop  == computePopulationStats(data)
      keys == ScoredKeys(data)
  IN [ pop |-> pop,
       terms |-> [u \in SeqToSet(keys) |-> TermsOf(data.contributors[u], pop)],
       engineers |-> analyzeEngineers(data) ]

\* GET /api/all-engineers: analyzeEngineers(data.contributors, data.prs)
Analyze ==
  /\ aStage = "input"
  /\ LET a == AnalysisOf(aData)
     IN aPop' = a.pop /\ aTerms' = a.terms /\ aEngineers' = a.engineers
  /\ aStage' = "analyzed"
  /\ UNCHANGED <<aData, aTop, aLimit, aInsights>>
  /\ UNCHANGED <<mergeVars, aggVars, scoreVars, trendVars, sysVars>>

\* The next request finds the counters of one contributor with fewer than
\* two pull requests changed (still fewer than two) and analyzes again.
Reanalyze ==
  /\ aStage = "analyzed"
  /\ \E u \in DOMAIN aData.contributors : \E p \in Profiles :
       /\ aData.contributors[u].prs_created < 2
       /\ p.prs_created < 2
       /\ ContributorOf(u, p) # aData.contributors[u]
       /\ aData' = [aData EXCEPT !.contributors[u] = ContributorOf(u, p)]
  /\ LET a == AnalysisOf(aData')
     IN aPop' = a.pop /\ aTerms' = a.terms /\ aEngineers' = a.engineers
  /\ UNCHANGED <<aTop, aLimit, aInsights, aStage>>
  /\ UNCHANGED <<mergeVars, aggVars, scoreVars, trendVars, sysVars>>

\* GET /api/top-engineers: analyzeTopEngineers(contributors, prs, limit)
AnalyzeTop ==
  /\ aStage = "analyzed"
  /\ \E limit \in Limits :
       /\ aTop' = analyzeTopEngineers(aData, limit)
       /\ aLimit' = limit
  /\ aStage' = "top"
  /\ UNCHANGED <<aData, aPop, aTerms, aEngineers, aInsights>>
  /\ UNCHANGED <<mergeVars, aggVars, scoreVars, trendVars, sysVars>>

\* GET /api/all-engineers: generateInsights(engineers, data.contributors)
Insights ==
  /\ aStage = "analyzed"
  /\ aInsights' = generateInsights(aEngineers)
  /\ aStage' = "insights"
  /\ UNCHANGED <<aData, aPop, aTerms, aEngineers, aTop, aLimit>>
  /\ UNCHANGED <<mergeVars, aggVars, scoreVars, trendVars, sysVars>>

AnNext == Analyze \/ Reanalyze \/ AnalyzeTop \/ Insights

AnalyzeSpec == AnInit /\ [][AnNext]_vars

\* ------------------------------------------------- claims on the analyzer
\* The usernames of the dataset with at least two pull requests.
EligibleNames(data) ==
  {u \in DOMAIN data.contributors : data.contributors[u].prs_created >= 2}

Occurrences(engineers, u) ==
  Cardinality({i \in DOMAIN engineers : engineers[i].username = u})

\* C11: the list analyzeEngineers returns holds every contributor with
\* prs_created >= 2 exactly once and no other; and when the counters of a
\* contributor with prs_created < 2 change, the population statistics and
\* every engineer's scores stay as they were.
C11_EligibilityFilter ==
  [][ aStage' = "analyzed" =>
        /\ \A u \in DOMAIN aData'.contributors :
             Occurrences(aEngineers', u) =
               IF aData'.contributors[u].prs_created >= 2 THEN 1 ELSE 0
        /\ \A i \in DOMAIN aEngineers' :
             aEngineers'[i].username \in DOMAIN aData'.contributors
        /\ aStage = "analyzed" =>
             /\ aPop' = aPop
             /\ aEngineers' = aEngineers
             /\ aTerms' = aTerms ]_vars

\* C11 witness: an analyzed dataset in which a contributor with one pull
\* request has more files changed than every engineer of the list, next to a
\* contributor who only reviewed.
C11_Witness ==
  /\ aStage = "analyzed"
  /\ Len(aEngineers) >= 1
  /\ \E u, v \in DOMAIN aData.contributors :
       /\ aData.contributors[u].prs_created = 1
       /\ aData.contributors[u].total_files_changed > aPop.maxFilesChanged
       /\ aData.contributors[v].prs_created = 0
       /\ aData.contributors[v].reviews_given > aPop.maxReviewsGiven

ScoresOf(e) ==
  { e.impact_score, e.quality_score, e.velocity_score, e.collaboration_score,
    e.leadership_score }

\* C12: every score analyzeEngineers emits lies in [0, 100] (0..1000 tenths).
C12_ScoreBounds ==
  aStage = "analyzed" =>
    \A i \in DOMAIN aEngineers : \A x \in ScoresOf(aEngineers[i]) :
      0 <= x /\ x <= 1000

\* C12 witness: an analyzed population with an engineer whose merge hours
\* exceed the 90th percentile, one reaching 100 on a dimension and one
\* getting 0 on a dimension.
C12_Witness ==
  /\ aStage = "analyzed"
  /\ \E i \in DOMAIN aEngineers :
       aEngineers[i].stats.avg_merge_time > aPop.p90MergeHours
  /\ \E i \in DOMAIN aEngineers : 1000 \in ScoresOf(aEngineers[i])
  /\ \E i \in DOMAIN aEngineers : 0 \in ScoresOf(aEngineers[i])

\* u holds the maximum of signal F among the eligible contributors.
HoldsMax(u, F(_)) ==
  /\ u \in EligibleNames(aData)
  /\ \A v \in EligibleNames(aData) :
       RLe(F(aData.contributors[v]), F(aData.contributors[u]))

SigPrs(c) == Whole(c.prs_created)
SigReviews(c) == Whole(c.reviews_given)
SigFiles(c) == Whole(c.total_files_changed)
SigAvgFiles(c) == Frac(c.total_files_changed, c.prs_created)
SigCombined(c) == Whole(c.prs_created + c.reviews_given)

C15_DegeneratePopulation ==
  (aStage = "analyzed" /\ EligibleNames(aData) = {}) =>
    /\ aPop = [ maxPrs |-> 1, maxReviewsGiven |-> 1, maxFilesChanged |-> 1,
                maxAvgFilesPerPr |-> [n |-> 1, d |-> 1], maxCombined |-> 1,
                p90MergeHours |-> 7200 ]
    /\ aEngineers = <<>>

\* C15 witness: a dataset of several contributors, none with two pull
\* requests, has been analyzed.
C15_Witness ==
  /\ aStage = "analyzed"
  /\ EligibleNames(aData) = {}
  /\ \E u, v \in DOMAIN aData.contributors :
       /\ aData.contributors[u].prs_created = 1
       /\ aData.contributors[v].prs_created = 0
  /\ aEngineers = <<>>

PositionIn(seq, u) == CHOOSE i \in DOMAIN seq : seq[i] = u

SortedByImpact(engineers) ==
  \A i, j \in DOMAIN engineers :
    i < j => engineers[i].impact_score >= engineers[j].impact_score

TopIsPrefix ==
  aStage = "top" => aTop = SubSeq(aEngineers, 1, Min2(aLimit, Len(aEngineers)))

\* C19 as stated: the list is sorted descending by impact_score, engineers of
\* equal impact_score keep the insertion order of the contributor map, and
\* analyzeTopEngineers(limit) is the first limit elements of the list.
C19_SortedTiesByInsertion ==
  aStage \in {"analyzed", "top", "insights"} =>
    /\ SortedByImpact(aEngineers)
    /\ \A i, j \in DOMAIN aEngineers :
         (i < j /\ aEngineers[i].impact_score = aEngineers[j].impact_score) =>
           PositionIn(aData.order, aEngineers[i].username)
             < PositionIn(aData.order, aEngineers[j].username)
    /\ TopIsPrefix

\* u is enumerated before v: integer-like keys first, ascending, then the
\* others in insertion order.
EnumeratedBefore(u, v) ==
  IF u \in IndexLogins
  THEN v \notin IndexLogins \/ IndexValue(u) < IndexValue(v)
  ELSE /\ v \notin IndexLogins
       /\ PositionIn(aData.order, u) < PositionIn(aData.order, v)

\* C19 amended: engineers of equal impact_score keep the order in which
\* Object.keys enumerates the contributor map.
C19_SortedTiesByKeyOrder ==
  aStage \in {"analyzed", "top", "insights"} =>
    /\ SortedByImpact(aEngineers)
    /\ \A i, j \in DOMAIN aEngineers :
         (i < j /\ aEngineers[i].impact_score = aEngineers[j].impact_score) =>
           EnumeratedBefore(aEngineers[i].username, aEngineers[j].username)
    /\ TopIsPrefix

\* C19 witness: analyzeTopEngineers has cut a list that holds engineers of
\* different impact and two of equal impact, one with an integer-like login
\* inserted after the other's.
C19_Witness ==
  /\ aStage = "top"
  /\ aLimit < Len(aEngineers)
  /\ \E i, j \in DOMAIN aEngineers :
       aEngineers[i].impact_score > aEngineers[j].impact_score
  /\ \E i, j \in DOMAIN aEngineers :
       /\ i < j
       /\ aEngineers[i].impact_score = aEngineers[j].impact_score
       /\ aEngineers[i].username \in IndexLogins
       /\ aEngineers[j].username \notin IndexLogins
       /\ PositionIn(aData.order, aEngineers[j].username)
            < PositionIn(aData.order, aEngineers[i].username)

InsightFor(label) == CHOOSE x \in SeqToSet(aInsights) : x.label = label

\* The first engineer of the ranked list whose key is the winning value.
FirstWith(F(_), best) ==
  aEngineers[CHOOSE i \in DOMAIN aEngineers :
               /\ F(aEngineers[i]) = best
               /\ \A j \in DOMAIN aEngineers : F(aEngineers[j]) = best => i <= j]

GreatestKey(F(_)) ==
  CHOOSE x \in {F(aEngineers[i]) : i \in DOMAIN aEngineers} :
    \A j \in DOMAIN aEngineers : F(aEngineers[j]) <= x

KeyReviews(e) == e.stats.reviews_given
KeyPrs(e) == e.stats.prs_created
KeyFiles(e) == e.stats.files_changed
KeyMergeTime(e) == e.stats.avg_merge_time

LeastMergeTime ==
  CHOOSE x \in {KeyMergeTime(aEngineers[i]) : i \in DOMAIN aEngineers} :
    /\ x > 0
    /\ \A j \in DOMAIN aEngineers :
         KeyMergeTime(aEngineers[j]) > 0 => x <= KeyMergeTime(aEngineers[j])

\* C20: the winner of each superlative is the first engineer of the ranked
\* list that has the winning value.
C20_FirstEncounteredWins ==
  (aStage = "insights" /\ Len(aEngineers) > 0) =>
    /\ InsightFor("Review Champion").username
         = FirstWith(KeyReviews, GreatestKey(KeyReviews)).username
    /\ InsightFor("Most Prolific").username
         = FirstWith(KeyPrs, GreatestKey(KeyPrs)).username
    /\ InsightFor("Broadest Reach").username
         = FirstWith(KeyFiles, GreatestKey(KeyFiles)).username
    /\ InsightFor("Most Well-Rounded").username
         = FirstWith(MinDimension, GreatestKey(MinDimension)).username
    /\ (\E i \in DOMAIN aEngineers : KeyMergeTime(aEngineers[i]) > 0) =>
         InsightFor("Fastest Merger").username
           = FirstWith(KeyMergeTime, LeastMergeTime).username

\* The labels of the insights, in the order they were pushed.
InsightLabels == [i \in DOMAIN aInsights |-> aInsights[i].label]

AlwaysOffered ==
  <<"Review Champion", "Most Prolific", "Broadest Reach", "Most Well-Rounded">>

\* Some ranked engineer has a positive average merge time.
SomeTimed == \E i \in DOMAIN aEngineers : KeyMergeTime(aEngineers[i]) > 0

\* The ranked engineer an insight names.
EngineerNamed(x) ==
  aEngineers[CHOOSE i \in DOMAIN aEngineers : aEngineers[i].username = x.username]

TimedNames(data) ==
  {u \in EligibleNames(data) :
     data.contributors[u].avg_time_to_merge_hours > 0}

\* v stands at index k (from 0) of the ascending order of the merge hours of
\* the contributors named: at most k of them lie below v, more than k at or
\* below it.
StandsAt(data, names, v, k) ==
  /\ \E u \in names : data.contributors[u].avg_time_to_merge_hours = v
  /\ Cardinality({u \in names :
        data.contributors[u].avg_time_to_merge_hours < v}) <= k
  /\ Cardinality({u \in names :
        data.contributors[u].avg_time_to_merge_hours <= v}) > k

\* C29: with an eligible contributor, p90MergeHours is the element at index
\* floor(0.9 n) of the ascending positive merge hours of the n eligible
\* contributors that have some, and 72 hours when none has; for every
\* contributor map p90MergeHours > 0 and every maximum is at least 1.
C29_Percentile ==
  aStage \in {"analyzed", "top", "insights"} =>
    LET timed == TimedNames(aData)
    IN /\ EligibleNames(aData) # {} =>
            IF timed = {} THEN aPop.p90MergeHours = FallbackP90
            ELSE StandsAt(aData, timed, aPop.p90MergeHours,
                          (9 * Cardinality(timed)) \div 10)
       /\ aPop.p90MergeHours > 0
       /\ aPop.maxPrs >= 1
       /\ aPop.maxReviewsGiven >= 1
       /\ aPop.maxFilesChanged >= 1
       /\ RLe(Whole(1), aPop.maxAvgFilesPerPr)
       /\ aPop.maxCombined >= 1

\* C29: statistics were computed for a population in which an eligible
\* contributor without merge hours was left out of the percentile, which
\* lies above the least positive merge hours.
C29_Witness ==
  /\ aStage = "analyzed"
  /\ TimedNames(aData) # EligibleNames(aData)
  /\ \E u \in TimedNames(aData) :
       aData.contributors[u].avg_time_to_merge_hours < aPop.p90MergeHours

\* --------------------------------- scoreContributor on drawn arguments
\* The contributor and the statistics of the worked scenario: 64.13 hours
\* are 6413 hundredths, maxAvgFilesPerPr 19.3 is 193/10.
ScenarioContributor == Activity(7, 135, 2609, 240, 6413, 24, 15)

ScenarioStats ==
  [ maxPrs |-> 7, maxReviewsGiven |-> 24, maxFilesChanged |-> 135,
    maxAvgFilesPerPr |-> Frac(193, 10), maxCombined |-> 31,
    p90MergeHours |-> 6413 ]

\* Contributors scoreContributor is applied to beyond the drawn profiles:
\* a reviewer with one pull request, and an author of many with no review.
ScoreProfiles ==
  Profiles \cup
  { CrowdProfile, ScenarioContributor,
    Activity(1, 3, 40, 10, 50, 4, 2),
    Activity(6, 12, 1800, 600, 300, 0, 0) }

\* Population statistics it is scored against, the fallback ones included.
ScoreStats ==
  { EmptyPopulationStats,
    [ maxPrs |-> 3, maxReviewsGiven |-> 2, maxFilesChanged |-> 6,
      maxAvgFilesPerPr |-> Whole(2), maxCombined |-> 5, p90MergeHours |-> 250 ],
    [ maxPrs |-> 2, maxReviewsGiven |-> 1, maxFilesChanged |-> 4,
      maxAvgFilesPerPr |-> Whole(2), maxCombined |-> 3, p90MergeHours |-> 100 ],
    [ maxPrs |-> 6, maxReviewsGiven |-> 4, maxFilesChanged |-> 12,
      maxAvgFilesPerPr |-> Frac(9, 2), maxCombined |-> 6, p90MergeHours |-> 400 ],
    [ maxPrs |-> 2, maxReviewsGiven |-> 3, maxFilesChanged |-> 1,
      maxAvgFilesPerPr |-> Whole(1), maxCombined |-> 4, p90MergeHours |-> 7200 ],
    [ maxPrs |-> 8, maxReviewsGiven |-> 30, maxFilesChanged |-> 150,
      maxAvgFilesPerPr |-> Whole(20), maxCombined |-> 32, p90MergeHours |-> 500 ] }

ScoreArguments ==
  (ScoreProfiles \X ScoreStats) \cup {<<ScenarioContributor, ScenarioStats>>}

ScoreInit ==
  /\ \E args \in ScoreArguments :
       /\ sC = ContributorOf("alice", args[1])
       /\ sPop = args[2]
  /\ sScore = Null
  /\ sStage = "input"
  /\ hasToken = FALSE
  /\ pagesParam = 1
  /\ SysIdle
  /\ MergeOff /\ AggOff /\ AnOff /\ TrendOff

ScoreStep ==
  /\ sStage = "input"
  /\ sScore' = scoreContributor("alice", sC, sPop)
  /\ sStage' = "scored"
  /\ UNCHANGED <<sC, sPop>>
  /\ UNCHANGED <<mergeVars, aggVars, anVars, trendVars, sysVars>>

ScoreNext == ScoreStep

ScoreSpec == ScoreInit /\ [][ScoreNext]_vars

\* ---------------------------------------------- claims on scoreContributor
\* C14: with prs_created = 0 or reviews_given = 0 the balance term is 0:
\* the leadership score is 0.60 x ownership, rounded to one decimal, however
\* large the other counter is.
C14_BalanceGate ==
  (sStage = "scored" /\ (sC.prs_created = 0 \/ sC.reviews_given = 0)) =>
    sScore.leadership_score =
      RoundDiv(600 * Min2(sC.total_files_changed, sPop.maxFilesChanged),
               sPop.maxFilesChanged)

\* C14 witness: a contributor with no review whose prs_created alone
\* exceeds maxCombined, and with files changed, has been scored.
C14_Witness ==
  /\ sStage = "scored"
  /\ sC.reviews_given = 0
  /\ sC.prs_created > sPop.maxCombined
  /\ sC.total_files_changed > 0
  /\ sScore.leadership_score > 0
  /\ sScore.leadership_score <= 600

IsScenario == sC = ContributorOf("alice", ScenarioContributor) /\ sPop = ScenarioStats

Near(x, tenths) == tenths - 1 <= x /\ x <= tenths + 1

OverlayKeys(c) ==
  {DedupKey(p) : p \in SeqToSet(aggregateRawPRs(calls[c].recentPRs).prs)}

\* C25: while a call fetches its recent overlay it has fetched fewer than
\* MAX_PAGES pages, none of the pull requests it collected has a number the
\* base knows, and none of them is in the base by the dedup key (author,
\* merged_at).
C25_OverlayDisjointFromBase ==
  \A c \in Callers :
    InFlight(c) =>
      /\ calls[c].pages < MAX_PAGES
      /\ \A i \in DOMAIN calls[c].recentPRs :
           calls[c].recentPRs[i].number \notin calls[c].knownPrNumbers
      /\ OverlayKeys(c) \cap ExistingPrs(calls[c].baseData) = {}

\* C26: without a token no call ever waits for an upstream page, and the
\* dataset a call returned and cached is the snapshot, merged with the
\* backfill overlay if one is published.
C26_TokenlessServesSnapshot ==
  ~hasToken =>
    /\ \A c \in Callers : ~InFlight(c)
    /\ cachedData # Null =>
         LET expected == IF backfillData # Null
                         THEN mergeData(StaticSnapshot, backfillData)
                         ELSE StaticSnapshot
         IN /\ cachedData.contributors = expected.contributors
            /\ cachedData.prs = expected.prs

\* C26: a call ran to its end without a token and cached its dataset.
C26_Witness ==
  /\ ~hasToken
  /\ cachedData # Null
  /\ \A c \in Callers : calls[c].pc = "idle"

\* C28: a page request of the recent-overlay fetch is on its first or second
\* attempt; the second attempt followed a delay of 1000 * 2^(attempt - 1) ms
\* counted from the failed attempt, the first followed none; and a call on
\* its second attempt either leaves the page (the call ends, or the next
\* page starts at attempt 1) or stays as it is: no further attempt is made.
C28_BoundedRetries ==
  [][\A c \in Callers :
       /\ InFlight(c)' =>
            /\ calls'[c].attempt \in 1..2
            /\ calls'[c].waited =
                 IF calls'[c].attempt = 1 THEN 0
                 ELSE 1000 * 2 ^ ((calls'[c].attempt - 1) - 1)
       /\ (InFlight(c) /\ calls[c].attempt = 2 /\ InFlight(c)') =>
            \/ calls'[c] = calls[c]
            \/ /\ calls'[c].pages = calls[c].pages + 1
               /\ calls'[c].attempt = 1]_vars

\* C28: a page request failed once and is on its second attempt, 1000 ms
\* after the failure.
C28_Witness ==
  \E c \in Callers :
    InFlight(c) /\ calls[c].attempt = 2 /\ calls[c].waited = 1000

\* reviews_given >= prs_reviewed >= 0 for every contributor of the dataset.
ReviewCountsOrdered(d) ==
  \A u \in DOMAIN d.contributors :
    /\ d.contributors[u].reviews_given >= d.contributors[u].prs_reviewed
    /\ d.contributors[u].prs_reviewed >= 0

\* C27: every dataset of the running system has reviews_given >=
\* prs_reviewed >= 0 for every contributor: the backfill overlay (an
\* aggregate), the aggregate of the recent pull requests collected so far,
\* the snapshot merged with the backfill overlay, and the cached dataset
\* (that one merged with the recent overlay).
C27_ReviewCountsOrdered ==
  /\ backfillData # Null => ReviewCountsOrdered(backfillData)
  /\ cachedData # Null => ReviewCountsOrdered(cachedData)
  /\ \A c \in Callers :
       InFlight(c) =>
         /\ ReviewCountsOrdered(calls[c].baseData)
         /\ ReviewCountsOrdered(aggregateRawPRs(calls[c].recentPRs))

\* C27: the cached dataset is the snapshot merged with a backfill overlay
\* and then with a recent overlay, and one of its contributors gave more
\* reviews than the pull requests reviewed.
C27_Witness ==
  /\ cachedData # Null
  /\ backfillData # Null
  /\ hist.cacheBase = mergeData(StaticSnapshot, backfillData)
  /\ cachedData.contributors # hist.cacheBase.contributors
  /\ \E u \in DOMAIN cachedData.contributors :
       /\ cachedData.contributors[u].prs_reviewed > 0
       /\ cachedData.contributors[u].reviews_given
            > cachedData.contributors[u].prs_reviewed

\* The overlays the backfill route can publish: the aggregate of the oldest
\* k upstream pull requests.
PublishableBackfills ==
  {aggregateRawPRs(RowsAsc(1..k, 1)) : k \in 1..HistLen}

\* The snapshot, merged with the backfill overlay b if there is one.
SnapshotWith(b) ==
  IF b = Null THEN StaticSnapshot ELSE mergeData(StaticSnapshot, b)

\* The upstream pull requests newer than every pull request whose number
\* the base knows, newest first, MAX_PAGES pages of them at most.
RecentOf(base) ==
  LET known == KnownPrNumbers(base)
      nums  == {n \in 1..HistLen :
                  /\ \A m \in n..HistLen : m \notin known
                  /\ n > HistLen - MAX_PAGES * PageSize}
  IN RowsDesc(nums, HistLen)

\* C30: a step of a getGitHubData call leaves the backfill overlay as it
\* was; and whenever a call replaces the cached dataset, the dataset it
\* started from is the snapshot as imported, merged with a backfill overlay
\* or with none, and, unless a page request failed for good, the dataset it
\* caches is that one merged with the aggregate of the upstream pull
\* requests newer than the known ones (none without a token): a function of
\* the snapshot, the backfill overlay and the upstream alone, the same at
\* every refresh.
C30_RefreshFromSnapshot ==
  [][/\ calls' # calls => backfillData' = backfillData
     /\ (cachedData' # cachedData /\ cachedData' # Null) =>
          /\ \E b \in PublishableBackfills \cup {Null} :
               hist'.cacheBase = SnapshotWith(b)
          /\ ~hist'.cacheFailed =>
               cachedData' = WithOverlay(hist'.cacheBase,
                               IF hasToken THEN RecentOf(hist'.cacheBase)
                               ELSE <<>>)]_vars

\* C30: with a backfill overlay published and recent pull requests merged,
\* a refresh replaced the dataset an earlier refresh had cached.
C30_Witness ==
  /\ cachedData # Null
  /\ hist.refilled
  /\ ~hist.cacheFailed
  /\ backfillData # Null
  /\ hist.cacheBase = SnapshotWith(backfillData)
  /\ cachedData.contributors # hist.cacheBase.contributors

\* ------------------------------------------------------------------ trends
\* A merge time is a number of seconds since 1970-01-01T00:00:00Z, or
\* InvalidDate for a string that does not parse.
DaySeconds == 24 * 60 * 60

\* The calendar around the turn of the year 2024: the months by the day
\* number (days since 1970-01-01) of their first day.
Months ==
  << [first |-> 20058, name |-> "Dec"],
     [first |-> 20089, name |-> "Jan"],
     [first |-> 20120, name |-> "Feb"] >>

\* The month the day lies in.
MonthOf(dayNo) ==
  Months[CHOOSE i \in DOMAIN Months :
           /\ Months[i].first <= dayNo
           /\ \A j \in DOMAIN Months : Months[j].first <= dayNo => j <= i]

\* getWeekStart without the case of Sunday: day 0 is moved like the others.
getWeekStartSundayAhead(date) ==
  LET dayNo == date \div DaySeconds
      day   == (dayNo + 4) % 7
      first == MonthOf(dayNo).first
      diff  == (dayNo - first + 1) - day + 1
  IN (first + diff - 1) * DaySeconds

\* day: getUTCDay(), 0 for Sunday (1970-01-01 was a Thursday); dayNo - first
\* + 1: getUTCDate(); setUTCDate(diff) moves to day diff of the same month,
\* into the month before when diff < 1; setUTCHours(0, 0, 0, 0).
getWeekStart(date) ==
  LET dayNo == date \div DaySeconds
      day   == (dayNo + 4) % 7
      first == MonthOf(dayNo).first
      diff  == (dayNo - first + 1) - day + (IF day = 0 THEN 0 - 6 ELSE 1)
  IN (first + diff - 1) * DaySeconds

\* weekStart.toISOString().slice(0, 10): the UTC date, as a day number.
\* ISO dates sort as strings the way their day numbers sort.
WeekKeyOf(date) == getWeekStart(date) \div DaySeconds

\* new Date(weekKey).toLocaleDateString('en-US', { month: 'short', day:
\* 'numeric' }) on a server whose time zone is UTC: no year.
WeekLabel(weekKey) ==
  <<MonthOf(weekKey).name, weekKey - MonthOf(weekKey).first + 1>>

\* TrendsOf leaving the weeks in the order they were first met.
TrendsOfUnsorted(prs, topEngineers) ==
  LET topUsernames == {topEngineers[i].username : i \in DOMAIN topEngineers}
      counted == SelectSeq(prs, LAMBDA pr :
                   /\ pr.author_username \in topUsernames
                   /\ ~IsNaNDate(pr.merged_at))
      weekMap(weekKey, username) ==
        Cardinality({i \in DOMAIN counted :
                       /\ WeekKeyOf(counted[i].merged_at) = weekKey
                       /\ counted[i].author_username = username})
      sortedWeeks ==
        Unique([i \in DOMAIN counted |-> WeekKeyOf(counted[i].merged_at)])
  IN [ engineers |->
         [i \in DOMAIN topEngineers |->
            [ username |-> topEngineers[i].username,
              name |-> NameOr(topEngineers[i].name, topEngineers[i].username) ]],
       series |->
         [i \in DOMAIN sortedWeeks |->
            [ week |-> WeekLabel(sortedWeeks[i]),
              counts |-> [u \in topUsernames |-> weekMap(sortedWeeks[i], u)] ]] ]

\* generateTrends from the loop over prs on, topEngineers being ranked.
\* counted: the pull requests the loop does not skip; weekMap(weekKey,
\* username): weekMap[weekKey][username] || 0.  An entry of the series is
\* { week: label, [username]: count, ... }: the counts are kept apart from
\* the label.
TrendsOf(prs, topEngineers) ==
  LET topUsernames == {topEngineers[i].username : i \in DOMAIN topEngineers}
      counted == SelectSeq(prs, LAMBDA pr :
                   /\ pr.author_username \in topUsernames
                   /\ ~IsNaNDate(pr.merged_at))
      weekMap(weekKey, username) ==
        Cardinality({i \in DOMAIN counted :
                       /\ WeekKeyOf(counted[i].merged_at) = weekKey
                       /\ counted[i].author_username = username})
      sortedWeeks ==
        SortAsc(<<>>,
          Unique([i \in DOMAIN counted |-> WeekKeyOf(counted[i].merged_at)]))
  IN [ engineers |->
         [i \in DOMAIN topEngineers |->
            [ username |-> topEngineers[i].username,
              name |-> NameOr(topEngineers[i].name, topEngineers[i].username) ]],
       series |->
         [i \in DOMAIN sortedWeeks |->
            [ week |-> WeekLabel(sortedWeeks[i]),
              counts |-> [u \in topUsernames |-> weekMap(sortedWeeks[i], u)] ]] ]

\* data: [contributors, order].
generateTrends(prs, data, top) ==
  IF Len(prs) = 0 THEN [engineers |-> <<>>, series |-> <<>>]
  ELSE TrendsOf(prs, Slice0(analyzeEngineers(data), top))

\* --------------------------------------------- GET /api/trends on drawn lists
\* At most MaxTrendPrs pull requests are in the dataset.
MaxTrendPrs == 2

\* The merge times drawn: every day from Sunday 2024-12-29 to Monday
\* 2025-01-06, of which Monday 2024-12-30 to Sunday 2025-01-05 are one ISO
\* week across the turn of the year; the first instant of a Monday, the last
\* second of a Sunday, and a string that does not parse.
TrendInstants ==
  { 20086 * DaySeconds + (DaySeconds - 1),
    20087 * DaySeconds,
    20088 * DaySeconds + 12 * 3600,
    20089 * DaySeconds,
    20090 * DaySeconds + 3600,
    20091 * DaySeconds + 18 * 3600,
    20092 * DaySeconds + 7 * 3600,
    20093 * DaySeconds + (DaySeconds - 1),
    20094 * DaySeconds,
    InvalidDate }

\* The contributors of the dataset, all with two pull requests or more;
\* analyzeEngineers reads the contributors only.
TrendContributors ==
  DatasetOf(<<"alice", "bob", "carol">>,
            [u \in {"alice", "bob", "carol"} |->
               CASE u = "alice" -> Activity(3, 6, 900, 150, 250, 2, 2)
                 [] u = "bob"   -> Activity(2, 4, 7000, 0, 400, 0, 0)
                 [] OTHER       -> CrowdProfile],
            FALSE)

\* The PR lists drawn: alice and bob are the authors.  Of a PRData record
\* the author and the merge time are kept.
TrendPrLists ==
  UNION { [1..n -> [author_username : {"alice", "bob"}, merged_at : TrendInstants]]
          : n \in 0..MaxTrendPrs }

\* The queries drawn: top 1 or 2; no window, a window from Monday
\* 2024-12-30 on, or one up to the end of Sunday 2024-12-29.  An absent
\* bound is the empty sequence.
TrendQueries ==
  [ top : {1, 2},
    window : { [from |-> <<>>, to |-> <<>>],
               [from |-> <<20087 * DaySeconds>>, to |-> <<>>],
               [from |-> <<>>, to |-> <<20086 * DaySeconds + (DaySeconds - 1)>>] } ]

TrendInit ==
  /\ \E prs \in TrendPrLists :
       tData = [ contributors |-> TrendContributors.contributors,
                 order |-> TrendContributors.order,
                 prs |-> prs ]
  /\ tQuery = Null
  /\ tTrends = Null
  /\ tStage = "input"
  /\ hasToken = FALSE
  /\ pagesParam = 1
  /\ SysIdle
  /\ MergeOff /\ AggOff /\ AnOff /\ ScoreOff

\* filteredPRs: pr.merged_at >= from and pr.merged_at <= to compare ISO
\* strings, which order as the instants do; a merge time that does not parse
\* is taken for the empty string, below every bound.
FilteredPRs(prs, window) ==
  SelectSeq(prs, LAMBDA pr :
    /\ window.from # <<>> => pr.merged_at >= window.from[1]
    /\ window.to # <<>> => pr.merged_at <= window.to[1])

\* GET /api/trends?top=&from=&to=: generateTrends(filteredPRs,
\* data.contributors, top, ...); the function has three parameters and the
\* arguments after the third are dropped.
TrendsRoute ==
  /\ tStage = "input"
  /\ \E q \in TrendQueries :
       /\ tQuery' = q
       /\ tTrends' = generateTrends(FilteredPRs(tData.prs, q.window),
                       [contributors |-> tData.contributors, order |-> tData.order],
                       Min2(q.top, 10))
  /\ tStage' = "served"
  /\ UNCHANGED tData
  /\ UNCHANGED <<mergeVars, aggVars, anVars, scoreVars, sysVars>>

TrendNext == TrendsRoute

TrendSpec == TrendInit /\ [][TrendNext]_vars

\* -------------------------------------------------- claims on the trends
\* The pull requests of the window served.
WindowPRs == FilteredPRs(tData.prs, tQuery.window)

\* The usernames of the engineers the response names.
CohortNames == {tTrends.engineers[i].username : i \in DOMAIN tTrends.engineers}

\* The positions in WindowPRs of the pull requests that qualify: authored by
\* a named engineer, with a merge time that parses.
Qualifying ==
  {i \in DOMAIN WindowPRs :
     /\ WindowPRs[i].author_username \in CohortNames
     /\ ~IsNaNDate(WindowPRs[i].merged_at)}

\* The ISO week of an instant, counted in weeks since Monday 1969-12-29, and
\* the day number of the Monday of a week.
IsoWeek(t) == ((t \div DaySeconds) + 3) \div 7
MondayOf(week) == week * 7 - 3

RECURSIVE TotalOf(_)
\* The sum of the counts of a series entry.
TotalOf(counts) ==
  IF DOMAIN counts = {} THEN 0
  ELSE LET u == CHOOSE x \in DOMAIN counts : TRUE
       IN counts[u] + TotalOf([x \in DOMAIN counts \ {u} |-> counts[x]])

\* C22: for every merge time t of the dataset that parses, getWeekStart(t)
\* is 00:00:00 UTC of a Monday with getWeekStart(t) <= t < getWeekStart(t)
\* + 7 days; and for every qualifying pull request the series has exactly
\* one entry labelled with the Monday of its ISO week, whose counts add up
\* to the number of qualifying pull requests of that ISO week.
C22_WeekBucketing ==
  tStage = "served" =>
    /\ \A i \in DOMAIN tData.prs :
         ~IsNaNDate(tData.prs[i].merged_at) =>
           LET t == tData.prs[i].merged_at
               w == getWeekStart(t)
           IN /\ w % DaySeconds = 0
              /\ ((w \div DaySeconds) + 4) % 7 = 1
              /\ w <= t
              /\ t < w + 7 * DaySeconds
    /\ \A i \in Qualifying :
         LET week == IsoWeek(WindowPRs[i].merged_at)
             entries == {k \in DOMAIN tTrends.series :
                           tTrends.series[k].week = WeekLabel(MondayOf(week))}
         IN /\ Cardinality(entries) = 1
            /\ \A k \in entries :
                 TotalOf(tTrends.series[k].counts)
                   = Cardinality({j \in Qualifying :
                                    IsoWeek(WindowPRs[j].merged_at) = week})

\* C22: a pull request merged in the last second of Sunday 2025-01-05 and
\* one merged in December 2024, both qualifying, are counted in the one
\* entry of the series, labelled Dec 30.
C22_Witness ==
  /\ tStage = "served"
  /\ Len(tTrends.series) = 1
  /\ tTrends.series[1].week = <<"Dec", 30>>
  /\ TotalOf(tTrends.series[1].counts) = 2
  /\ \E i, j \in Qualifying :
       /\ WindowPRs[i].merged_at = 20093 * DaySeconds + (DaySeconds - 1)
       /\ WindowPRs[j].merged_at < 20089 * DaySeconds

\* The usernames of the top engineers of the ranking over the dataset's
\* contributors, for the top of the query.
RankedTopNames ==
  LET ranked == Slice0(analyzeEngineers([contributors |-> tData.contributors,
                                         order |-> tData.order]),
                       Min2(tQuery.top, 10))
  IN {ranked[i].username : i \in DOMAIN ranked}

\* C23: the series has one entry per ISO week with a qualifying pull
\* request (authored by one of the top engineers of the ranking, with a
\* merge time that parses) and no other, in ascending week order; every
\* entry has a count for each top engineer, the number of that engineer's
\* qualifying pull requests of the week (0 when there is none), so the
\* counts of the series add up to the number of qualifying pull requests.
C23_SparseWeeksDenseCounts ==
  tStage = "served" =>
    LET names  == RankedTopNames
        prs    == WindowPRs
        series == tTrends.series
        qualifying ==
          {i \in DOMAIN prs : /\ prs[i].author_username \in names
                              /\ ~IsNaNDate(prs[i].merged_at)}
        weeks == {IsoWeek(prs[i].merged_at) : i \in qualifying}
    IN /\ Len(series) = Cardinality(weeks)
       /\ \A k \in DOMAIN series :
            \E week \in weeks :
              /\ Cardinality({w \in weeks : w < week}) = k - 1
              /\ series[k].week = WeekLabel(MondayOf(week))
              /\ DOMAIN series[k].counts = names
              /\ \A u \in names :
                   series[k].counts[u]
                     = Cardinality({i \in qualifying :
                          /\ IsoWeek(prs[i].merged_at) = week
                          /\ prs[i].author_username = u})

\* C23: two top engineers merged one pull request each, the one listed
\* first in the later week; the series has the two weeks in ascending order
\* and a count of 0 in each.
C23_Witness ==
  /\ tStage = "served"
  /\ Len(tTrends.series) = 2
  /\ Len(WindowPRs) = 2
  /\ WindowPRs[1].merged_at > WindowPRs[2].merged_at
  /\ tTrends.series[1].week = <<"Dec", 23>>
  /\ \A k \in DOMAIN tTrends.series :
       \E u \in DOMAIN tTrends.series[k].counts : tTrends.series[k].counts[u] = 0

\* C24: for a dataset with pull requests, the engineers the response names
\* are the top engineers of the ranking over the dataset's contributors,
\* in ranking order, whatever the window of the query.
C24_CohortStable ==
  (tStage = "served" /\ Len(tData.prs) > 0) =>
    LET ranked == Slice0(analyzeEngineers([contributors |-> tData.contributors,
                                           order |-> tData.order]),
                         Min2(tQuery.top, 10))
    IN [i \in DOMAIN tTrends.engineers |-> tTrends.engineers[i].username]
         = [i \in DOMAIN ranked |-> ranked[i].username]

====
